---- MODULE Spec2Model ----
(***************************************************************************)
(* LintMon: the refresh coordinator of DiagnosticsTreeProvider             *)
(* (src/src/providers/treeViewProvider.ts) driving DiagnosticsProvider     *)
(* (src/unnamed/part_000), on the single-threaded event loop of the        *)
(* extension host.  One action is one event-loop task: a command or        *)
(* watcher callback, a timer callback up to its first real suspension, or  *)
(* the continuation that runs when an awaited scan settles.                *)
(***************************************************************************)
EXTENDS Integers, Sequences, FiniteSets, TLC

\* The environment issues a request (a command, a watcher event, a pull no
\* notification asked for) only while it leaves at most this many triggers
\* outstanding: armed timers, unanswered notifications and scans in flight.
MaxOutstanding == 2

\* The longest burst of refresh() calls that is counted.
MaxBurst == 3

\* --------------------------------------------------------------- strings

\* A JavaScript string is the sequence of its characters, so that
\* concatenation, prefixes and comparison are computed; a value of type
\* string | number | undefined carries its type.
Undefined == [t |-> "undefined", s |-> <<>>, n |-> 0]
Str(s) == [t |-> "string", s |-> s, n |-> 0]
Num(n) == [t |-> "number", s |-> <<>>, n |-> n]

\* ToBoolean: undefined, the empty string and 0 are falsy.
Truthy(v) == (v.t = "string" /\ v.s # <<>>) \/ (v.t = "number" /\ v.n # 0)

\* a || b
OrElse(v, w) == IF Truthy(v) THEN v ELSE w

DigitChars == <<"0", "1", "2", "3", "4", "5", "6", "7", "8", "9">>

\* Number to decimal string (the numbers used are naturals).
RECURSIVE Decimal(_)
Decimal(n) ==
  IF n < 10 THEN <<DigitChars[n + 1]>>
  ELSE Decimal(n \div 10) \o <<DigitChars[(n % 10) + 1]>>

\* String(v), as a template literal `${v}` applies it.
StringOf(v) ==
  CASE v.t = "string" -> v.s
    [] v.t = "number" -> Decimal(v.n)
    [] OTHER -> <<"u", "n", "d", "e", "f", "i", "n", "e", "d">>

\* The collation order of the characters that occur in labels: white
\* space, then punctuation, then digits, then letters.
CollationOrder ==
  <<" ", "-", ":", ".", "/",
    "0", "1", "2", "3", "4", "5", "6", "7", "8", "9",
    "a", "b", "c", "d", "e", "f", "g", "h", "i", "j", "k", "l", "m",
    "n", "o", "p", "q", "r", "s", "t", "u", "v", "w", "x", "y", "z">>

UpperCase == <<"U">>
LowerOf == <<"u">>

IsUpper(c) == \E i \in 1..Len(UpperCase) : UpperCase[i] = c
ToLower(c) ==
  IF IsUpper(c)
  THEN LowerOf[CHOOSE i \in 1..Len(UpperCase) : UpperCase[i] = c]
  ELSE c

\* The primary weight of a character: its place in the collation order,
\* whatever its case.
Weight(c) == CHOOSE i \in 1..Len(CollationOrder) : CollationOrder[i] = ToLower(c)

\* Strings compared position by position on the primary weight; a proper
\* prefix comes first.  -1, 0 or 1.
RECURSIVE ComparePrimary(_, _)
ComparePrimary(a, b) ==
  IF a = <<>> THEN (IF b = <<>> THEN 0 ELSE -1)
  ELSE IF b = <<>> THEN 1
  ELSE IF Weight(Head(a)) < Weight(Head(b)) THEN -1
  ELSE IF Weight(Head(a)) > Weight(Head(b)) THEN 1
  ELSE ComparePrimary(Tail(a), Tail(b))

CaseWeight(c) == IF IsUpper(c) THEN 1 ELSE 0

\* The same on the case of the characters: lower case first.
RECURSIVE CompareCase(_, _)
CompareCase(a, b) ==
  IF a = <<>> THEN (IF b = <<>> THEN 0 ELSE -1)
  ELSE IF b = <<>> THEN 1
  ELSE IF CaseWeight(Head(a)) < CaseWeight(Head(b)) THEN -1
  ELSE IF CaseWeight(Head(a)) > CaseWeight(Head(b)) THEN 1
  ELSE CompareCase(Tail(a), Tail(b))

\* String.prototype.localeCompare: the letters decide first, whatever
\* their case; strings that differ only in case put lower case first.
localeCompare(a, b) ==
  IF ComparePrimary(a, b) # 0 THEN ComparePrimary(a, b) ELSE CompareCase(a, b)

\* Array.prototype.sort with the comparator (a, b) => a.label.localeCompare(b.label):
\* a stable sort, here by insertion.
RECURSIVE InsertByLabel(_, _)
InsertByLabel(g, sorted) ==
  IF sorted = <<>> THEN <<g>>
  ELSE IF localeCompare(g.label, Head(sorted).label) < 0
       THEN <<g>> \o sorted
       ELSE <<Head(sorted)>> \o InsertByLabel(g, Tail(sorted))

RECURSIVE SortByLabel(_)
SortByLabel(groups) ==
  IF groups = <<>> THEN <<>>
  ELSE InsertByLabel(groups[Len(groups)], SortByLabel(SubSeq(groups, 1, Len(groups) - 1)))

\* -------------------------------------------------------------- grouping

\* The workspace folder, and vscode.workspace.asRelativePath: a path under
\* the folder loses the folder prefix, any other path is returned as it is.
WorkspaceRoot == <<"/", "w", "/">>

asRelativePath(path) ==
  IF /\ Len(path) > Len(WorkspaceRoot)
     /\ SubSeq(path, 1, Len(WorkspaceRoot)) = WorkspaceRoot
  THEN SubSeq(path, Len(WorkspaceRoot) + 1, Len(path))
  ELSE path

\* A Map in insertion order is the sequence of its entries; Map.has.
MapHas(map, key) == \E i \in 1..Len(map) : map[i].key = key

\* map.get(key).children.push(item)
MapPush(map, key, item) ==
  [i \in 1..Len(map) |->
     IF map[i].key = key
     THEN [map[i] EXCEPT !.value.children = Append(@, item)]
     ELSE map[i]]

\* Array.from(map.values())
MapValues(map) == [i \in 1..Len(map) |-> map[i].value]

\* flattenDiagnostics: the items of type 'diagnostic' of a tree, each node
\* before its children, children before the next sibling.
RECURSIVE flattenDiagnostics(_)
flattenDiagnostics(items) ==
  IF items = <<>> THEN <<>>
  ELSE LET item == Head(items)
       IN  (IF item.type = "diagnostic" THEN <<item>> ELSE <<>>)
           \o (IF "children" \in DOMAIN item
               THEN flattenDiagnostics(item.children) ELSE <<>>)
           \o flattenDiagnostics(Tail(items))

\* The loop of groupByFile over the items, keyed by item.uri.fsPath.
RECURSIVE groupByFileLoop(_, _)
groupByFileLoop(items, fileMap) ==
  IF items = <<>> THEN fileMap
  ELSE LET item == Head(items)
           withKey ==
             IF MapHas(fileMap, item.uri) THEN fileMap
             ELSE Append(fileMap,
                    [key |-> item.uri,
                     value |-> [type |-> "file",
                                label |-> asRelativePath(item.uri),
                                uri |-> item.uri,
                                children |-> <<>>]])
       IN  IF item.type = "diagnostic"
           THEN groupByFileLoop(Tail(items), MapPush(withKey, item.uri, item))
           ELSE groupByFileLoop(Tail(items), fileMap)

\* groupByFile keeping only the latest record of each file.
groupByFile_KeepLast(items) ==
  LET groups == SortByLabel(MapValues(groupByFileLoop(items, <<>>)))
  IN  [i \in 1..Len(groups) |->
         [groups[i] EXCEPT !.children = <<@[Len(@)]>>]]

\* groupByFile without the final sort: the groups in insertion order.
groupByFile_Unsorted(items) == MapValues(groupByFileLoop(items, <<>>))

groupByFile(items) == SortByLabel(MapValues(groupByFileLoop(items, <<>>)))

\* The key and the label groupByErrorType gives an item.
errorTypeKey(item) ==
  StringOf(OrElse(item.source, Str(<<"u", "n", "k", "n", "o", "w", "n">>)))
    \o <<":">>
    \o StringOf(OrElse(item.code, Str(<<"u", "n", "k", "n", "o", "w", "n">>)))

errorTypeLabel(item) ==
  IF Truthy(item.code)
  THEN StringOf(item.source) \o <<":", " ">> \o StringOf(item.code)
  ELSE StringOf(OrElse(item.source, Str(<<"U", "n", "k", "n", "o", "w", "n">>)))

RECURSIVE groupByErrorTypeLoop(_, _)
groupByErrorTypeLoop(items, errorMap) ==
  IF items = <<>> THEN errorMap
  ELSE LET item == Head(items)
           key == errorTypeKey(item)
           withKey ==
             IF MapHas(errorMap, key) THEN errorMap
             ELSE Append(errorMap,
                    [key |-> key,
                     value |-> [type |-> "errorType",
                                label |-> errorTypeLabel(item),
                                source |-> item.source,
                                code |-> item.code,
                                children |-> <<>>]])
       IN  IF item.type = "diagnostic"
           THEN groupByErrorTypeLoop(Tail(items), MapPush(withKey, key, item))
           ELSE groupByErrorTypeLoop(Tail(items), errorMap)

groupByErrorType(items) ==
  SortByLabel(MapValues(groupByErrorTypeLoop(items, <<>>)))

\* groupByBoth grouping every file's rule groups from all the items.
groupByBoth_AllItems(items) ==
  LET fileGroups == groupByFile(items)
  IN  [i \in 1..Len(fileGroups) |->
         [fileGroups[i] EXCEPT !.children = groupByErrorType(items)]]

groupByBoth(items) ==
  LET fileGroups == groupByFile(items)
  IN  [i \in 1..Len(fileGroups) |->
         [fileGroups[i] EXCEPT !.children = groupByErrorType(@)]]

\* The values the setting lintmon.groupBy is honoured for, and one it is not.
GroupModes == {"file", "errorType", "both"}

groupDiagnostics(items, mode) ==
  CASE mode = "file" -> groupByFile(items)
    [] mode = "errorType" -> groupByErrorType(items)
    [] mode = "both" -> groupByBoth(items)
    [] OTHER -> items

\* ------------------------------------------------------------------ data

\* The findings the two producers can report, in the order they report them
\* (file b.ts is reported before file a.ts); severity is a
\* vscode.DiagnosticSeverity.  A scan returns the findings that are present
\* in the workspace at that moment and pass the filters: any subsequence of
\* this list.
Universe ==
  << [type |-> "diagnostic", uri |-> <<"/", "w", "/", "b", ".", "t", "s">>,
      severity |-> "Warning",
      source |-> Str(<<"e", "s", "l", "i", "n", "t">>),
      code |-> Str(<<"s", "e", "m", "i">>)],
     [type |-> "diagnostic", uri |-> <<"/", "w", "/", "a", ".", "t", "s">>,
      severity |-> "Error",
      source |-> Str(<<"t", "s">>),
      code |-> Num(2322)] >>

RECURSIVE SubSeqs(_)
SubSeqs(s) ==
  IF s = <<>> THEN { <<>> }
  ELSE LET rest == SubSeqs(Tail(s))
       IN  rest \cup { <<Head(s)>> \o r : r \in rest }

\* What a call of getDiagnostics can resolve with.
ScanResults == SubSeqs(Universe)

\* treeView.badge: undefined, or {tooltip, value}.
NoBadge == [kind |-> "none", value |-> 0]
ScanningBadge == [kind |-> "scanning", value |-> 0]
PausedBadge == [kind |-> "paused", value |-> 0]

\* The tree last returned by a root getChildren() is kept as the record list
\* it was grouped from (groupDiagnostics is a function of that list and the
\* group mode read in the same step); the empty list when it returned [].
EmptyTree == <<>>

\* No scenario is being followed.
NoTrack == [kind |-> "none", calls |-> 0, scans |-> 0]

VARIABLES
  \* DiagnosticsTreeProvider fields
  isPaused, isRefreshing, pendingRefresh, refreshTimeout,
  flatDiagnosticsList, currentIndex,
  \* the tree-view handle
  badge, message,
  \* the event loop and the host
  followUps,        \* pending 100 ms timers of getChildren's finally
  notifications,    \* data-changed events the display surface has not answered
  scans,            \* the calls of getDiagnostics in flight
  displayed,        \* the tree last returned to the display surface
  \* history
  op,               \* the operation that made the last step
  track,            \* the scenario under way and the scans begun in it
  unserved,         \* a request was accepted and no scan has begun since
  \* a function of the program called on its own
  call,             \* the call under way: the function and its arguments
  ret               \* the values it has returned, call after call

progVars == <<isPaused, isRefreshing, pendingRefresh, refreshTimeout,
              flatDiagnosticsList, currentIndex, badge, message>>
hostVars == <<followUps, notifications, scans, displayed>>
histVars == <<op, track, unserved>>
coordVars == <<progVars, hostVars, histVars>>
funVars == <<call, ret>>
vars == <<coordVars, funVars>>

\* --------------------------------------------------------------- helpers

ErrorCount(list) == Len(SelectSeq(list, LAMBDA i : i.severity = "Error"))

\* updateBadge counting every item instead of the Error items.
updateBadge_CountAll(list) ==
  IF Len(list) > 0 THEN [kind |-> "count", value |-> Len(list)] ELSE NoBadge

\* updateBadge: the badge after it ran on the given flat list.
updateBadge(list) ==
  IF ErrorCount(list) > 0
  THEN [kind |-> "count", value |-> ErrorCount(list)]
  ELSE NoBadge

\* showScanningBadge
showScanningBadge == ScanningBadge

\* An identifier no scan in flight carries.
FreeId == CHOOSE n \in 1..(Cardinality(scans) + 1) : \A s \in scans : s.id # n

\* The record of a call of getDiagnostics that has just begun, made by
\* getChildren or by refreshBadgeInBackground.
NewScan(origin) == [id |-> FreeId, origin |-> origin, hit |-> FALSE]

\* A request arrived: every scan in flight has seen one.
Hit(ss) == { [s EXCEPT !.hit = TRUE] : s \in ss }

Quiescent == scans = {} /\ ~refreshTimeout /\ followUps = 0 /\ notifications = 0

\* No function is called on its own.
NoCall == [fn |-> "none"]

\* The coordinator after construction.
CoordInit ==
  /\ isPaused = FALSE
  /\ isRefreshing = FALSE
  /\ pendingRefresh = FALSE
  /\ refreshTimeout = FALSE
  /\ flatDiagnosticsList = <<>>
  /\ currentIndex = 0
  /\ badge = NoBadge
  /\ message = "none"
  /\ followUps = 0
  /\ notifications = 0
  /\ scans = {}
  /\ displayed = EmptyTree
  /\ op = "init"
  /\ track = NoTrack
  /\ unserved = FALSE

Init == CoordInit /\ call = NoCall /\ ret = <<>>

\* ------------------------------------------------------------- history

\* The triggers outstanding: the armed debounce timer, the 100 ms timers,
\* the unanswered notifications and the scans in flight.
Outstanding(timer, fu, nt, ss) ==
  (IF timer THEN 1 ELSE 0) + fu + nt + Cardinality(ss)

\* An external request is issued only if it leaves at most MaxOutstanding
\* triggers outstanding.
Admitted == Outstanding(refreshTimeout', followUps', notifications', scans') <= MaxOutstanding

Idle == /\ ~isPaused /\ ~isRefreshing /\ ~pendingRefresh
        /\ Outstanding(refreshTimeout, followUps, notifications, scans) = 0

\* Scans begun in a scenario are counted as 0, 1 or "more than one".
Bump(n) == IF n < 2 THEN n + 1 ELSE 2

\* The scenario after a step: a burst of refresh() calls that starts in Idle
\* and lasts while the debounce timer it armed is pending; a resume; or a
\* refreshImmediate() made while not paused with no scan in flight (calls
\* is 1 when it found a debounce timer pending).  Any other external
\* request ends the scenario, and a scan that begins inside one is counted.
NextTrack(name, external, started) ==
  IF name = "resume" THEN [kind |-> "resume", calls |-> 0, scans |-> 0]
  ELSE IF name = "refreshImmediate" /\ ~isPaused /\ scans = {}
       THEN [kind |-> "immediate", calls |-> IF refreshTimeout THEN 1 ELSE 0,
             scans |-> 0]
  ELSE IF name \in {"refresh"} /\ Idle
       THEN [kind |-> "burst", calls |-> 1, scans |-> 0]
  ELSE IF /\ name \in {"refresh"}
          /\ track.kind = "burst" /\ track.scans = 0 /\ refreshTimeout
          /\ track.calls < MaxBurst
       THEN [track EXCEPT !.calls = @ + 1]
  ELSE IF external THEN NoTrack
  ELSE IF started /\ track.kind # "none" THEN [track EXCEPT !.scans = Bump(@)]
  ELSE track

\* How a step moves the history variables: its name, whether it is an
\* external request, whether it begins a call of getDiagnostics, and whether
\* it is a refresh()/refreshImmediate() call accepted while not paused.  A
\* step of the coordinator leaves the call and the answers of the functions
\* examined alone as they are.
History(name, external, started, accepted) ==
  /\ op' = name
  /\ track' = NextTrack(name, external, started)
  /\ unserved' = IF started THEN FALSE ELSE IF accepted THEN TRUE ELSE unserved
  /\ UNCHANGED funVars

\* ------------------------------------------ DiagnosticsTreeProvider methods

\* refresh() without its isPaused check.
refresh_NoPauseCheck ==
  IF isRefreshing
  THEN pendingRefresh' = TRUE /\ UNCHANGED refreshTimeout
  ELSE refreshTimeout' = TRUE /\ UNCHANGED pendingRefresh

\* refresh(): what it does to pendingRefresh and the debounce timer.
refresh ==
  IF isPaused
  THEN UNCHANGED <<pendingRefresh, refreshTimeout>>
  ELSE IF isRefreshing
       THEN pendingRefresh' = TRUE /\ UNCHANGED refreshTimeout
       ELSE refreshTimeout' = TRUE /\ UNCHANGED pendingRefresh

\* refreshImmediate() without its clearTimeout.
refreshImmediate_KeepTimer(paused) ==
  IF paused
  THEN UNCHANGED <<pendingRefresh, refreshTimeout, notifications>>
  ELSE /\ UNCHANGED refreshTimeout
       /\ IF isRefreshing
          THEN pendingRefresh' = TRUE /\ UNCHANGED notifications
          ELSE notifications' = notifications + 1 /\ UNCHANGED pendingRefresh

\* refreshImmediate(), called with isPaused = paused: what it does to the
\* debounce timer, pendingRefresh and the data-changed notifications.
refreshImmediate(paused) ==
  IF paused
  THEN UNCHANGED <<pendingRefresh, refreshTimeout, notifications>>
  ELSE /\ refreshTimeout' = FALSE
       /\ IF isRefreshing
          THEN pendingRefresh' = TRUE /\ UNCHANGED notifications
          ELSE notifications' = notifications + 1 /\ UNCHANGED pendingRefresh

\* The timer callback as it was before the background scan: it only fires
\* the data-changed event.
refreshBadgeInBackground_EventOnly ==
  /\ notifications' = notifications + 1
  /\ UNCHANGED <<badge, scans>>

\* refreshBadgeInBackground up to its await: returns at once while
\* isRefreshing, else shows the scanning badge and calls getDiagnostics.
refreshBadgeInBackground ==
  IF isRefreshing
  THEN /\ notifications' = notifications + 1
       /\ UNCHANGED <<badge, scans>>
  ELSE /\ badge' = showScanningBadge
       /\ scans' = scans \cup {NewScan("badge")}
       /\ UNCHANGED notifications

\* The finally block of getChildren dropping the pending request instead of
\* scheduling the follow-up.
getChildrenFinally_NoFollowUp ==
  /\ isRefreshing' = FALSE
  /\ pendingRefresh' = FALSE
  /\ UNCHANGED followUps

\* The finally block of getChildren leaving the pending request recorded.
getChildrenFinally_KeepPending ==
  /\ isRefreshing' = FALSE
  /\ UNCHANGED <<pendingRefresh, followUps>>

\* The finally block of getChildren.
getChildrenFinally ==
  /\ isRefreshing' = FALSE
  /\ IF pendingRefresh
     THEN pendingRefresh' = FALSE /\ followUps' = followUps + 1
     ELSE UNCHANGED <<pendingRefresh, followUps>>

\* getChildren(undefined) up to its await.
getChildrenRoot ==
  IF isPaused
  THEN /\ displayed' = EmptyTree
       /\ UNCHANGED <<isRefreshing, badge, message, scans>>
  ELSE /\ isRefreshing' = TRUE
       /\ badge' = showScanningBadge
       /\ message' = "scanning"
       /\ scans' = scans \cup {NewScan("getChildren")}
       /\ UNCHANGED displayed

\* ---------------------------------------------------------------- actions

\* refresh() from the configuration watcher, the file-save watcher or the
\* initial 2 s timer of activate.
Refresh ==
  /\ refresh
  /\ scans' = IF isPaused THEN scans ELSE Hit(scans)
  /\ History("refresh", TRUE, FALSE, ~isPaused)
  /\ UNCHANGED <<isPaused, isRefreshing, flatDiagnosticsList, currentIndex, badge,
                 message, followUps,
                 notifications, displayed>>
  /\ Admitted

\* The command lintmon.refresh.
RefreshImmediate ==
  /\ refreshImmediate(isPaused)
  /\ scans' = IF isPaused THEN scans ELSE Hit(scans)
  /\ History("refreshImmediate", TRUE, FALSE, ~isPaused)
  /\ UNCHANGED <<isPaused, isRefreshing, flatDiagnosticsList, currentIndex, badge,
                 message, followUps,
                 displayed>>
  /\ Admitted

\* The command lintmon.togglePause.
TogglePause ==
  /\ isPaused' = ~isPaused
  /\ IF ~isPaused
     THEN /\ message' = "paused"
          /\ badge' = PausedBadge
          /\ UNCHANGED <<pendingRefresh, refreshTimeout, notifications, scans>>
          /\ History("pause", TRUE, FALSE, FALSE)
     ELSE /\ message' = "none"
          /\ refreshImmediate(FALSE)
          /\ scans' = Hit(scans)
          /\ UNCHANGED badge
          /\ History("resume", TRUE, FALSE, TRUE)
  /\ UNCHANGED <<isRefreshing, flatDiagnosticsList, currentIndex, followUps, displayed>>
  /\ Admitted

\* The 500 ms debounce timer fires.  When refreshBadgeInBackground returns
\* at once, the callback goes on to fire the data-changed event.
DebounceFire ==
  /\ refreshTimeout
  /\ refreshTimeout' = FALSE
  /\ refreshBadgeInBackground
  /\ History("debounceFire", FALSE, ~isRefreshing, FALSE)
  /\ UNCHANGED <<isPaused, isRefreshing, pendingRefresh, flatDiagnosticsList,
                 currentIndex, message, followUps, displayed>>

\* The 100 ms timer of getChildren's finally fires the data-changed event.
FollowUpFire ==
  /\ followUps > 0
  /\ followUps' = followUps - 1
  /\ notifications' = notifications + 1
  /\ History("followUpFire", FALSE, FALSE, FALSE)
  /\ UNCHANGED <<progVars, scans, displayed>>

\* The display surface answers a data-changed event with getChildren().
Pull ==
  /\ notifications > 0
  /\ notifications' = notifications - 1
  /\ getChildrenRoot
  /\ History("pull", FALSE, ~isPaused, FALSE)
  /\ UNCHANGED <<isPaused, pendingRefresh, refreshTimeout, flatDiagnosticsList,
                 currentIndex, followUps>>

\* The display surface calls getChildren() of its own accord (the view is
\* revealed).
Reveal ==
  /\ getChildrenRoot
  /\ History("reveal", TRUE, ~isPaused, FALSE)
  /\ UNCHANGED <<isPaused, pendingRefresh, refreshTimeout, flatDiagnosticsList,
                 currentIndex, followUps, notifications>>
  /\ Admitted

\* The scan of refreshBadgeInBackground resolves with items; the timer
\* callback then fires the data-changed event.
BadgeScanDone(s, items) ==
  /\ s \in scans
  /\ s.origin = "badge"
  /\ scans' = scans \ {s}
  /\ flatDiagnosticsList' = flattenDiagnostics(items)
  /\ badge' = updateBadge(flatDiagnosticsList')
  /\ notifications' = notifications + 1
  /\ History("badgeScanDone", FALSE, FALSE, FALSE)
  /\ UNCHANGED <<isPaused, isRefreshing, pendingRefresh, refreshTimeout,
                 currentIndex, message,
                 followUps, displayed>>

\* The scan of refreshBadgeInBackground rejects.
BadgeScanFail(s) ==
  /\ s \in scans
  /\ s.origin = "badge"
  /\ scans' = scans \ {s}
  /\ badge' = NoBadge
  /\ notifications' = notifications + 1
  /\ History("badgeScanFail", FALSE, FALSE, FALSE)
  /\ UNCHANGED <<isPaused, isRefreshing, pendingRefresh, refreshTimeout,
                 flatDiagnosticsList, currentIndex, message, followUps, displayed>>

\* The scan of getChildren resolves with items.
ChildrenScanDone(s, items) ==
  /\ s \in scans
  /\ s.origin = "getChildren"
  /\ scans' = scans \ {s}
  /\ flatDiagnosticsList' = flattenDiagnostics(items)
  /\ badge' = updateBadge(flatDiagnosticsList')
  /\ message' = "none"
  /\ displayed' = items
  /\ getChildrenFinally
  /\ History("childrenScanDone", FALSE, FALSE, FALSE)
  /\ UNCHANGED <<isPaused, refreshTimeout, currentIndex, notifications>>

\* The scan of getChildren rejects.
ChildrenScanFail(s) ==
  /\ s \in scans
  /\ s.origin = "getChildren"
  /\ scans' = scans \ {s}
  /\ message' = "error"
  /\ displayed' = EmptyTree
  /\ getChildrenFinally
  /\ History("childrenScanFail", FALSE, FALSE, FALSE)
  /\ UNCHANGED <<isPaused, refreshTimeout, flatDiagnosticsList, currentIndex,
                 badge, notifications>>

\* navigateToNext() stepping on without wrapping around.
navigateToNext_NoWrap(list, index) ==
  IF Len(list) = 0
  THEN [currentIndex |-> index, opened |-> <<>>, info |-> TRUE]
  ELSE [currentIndex |-> index + 1,
        opened |-> IF index + 2 \in DOMAIN list THEN <<list[index + 2]>> ELSE <<>>,
        info |-> FALSE]

\* navigateToNext(): the index it leaves, the items it opens in the editor and
\* whether it shows 'No diagnostics found'.  Indexes count from 0 as in the
\* source; the sequence is indexed from 1.
navigateToNext(list, index) ==
  IF Len(list) = 0
  THEN [currentIndex |-> index, opened |-> <<>>, info |-> TRUE]
  ELSE LET i == (index + 1) % Len(list)
       IN [currentIndex |-> i, opened |-> <<list[i + 1]>>, info |-> FALSE]

\* navigateToPrevious().
navigateToPrevious(list, index) ==
  IF Len(list) = 0
  THEN [currentIndex |-> index, opened |-> <<>>, info |-> TRUE]
  ELSE LET i == (index - 1 + Len(list)) % Len(list)
       IN [currentIndex |-> i, opened |-> <<list[i + 1]>>, info |-> FALSE]

\* The commands lintmon.nextDiagnostic and lintmon.previousDiagnostic.
NavigateToNext ==
  /\ currentIndex' = navigateToNext(flatDiagnosticsList, currentIndex).currentIndex
  /\ History("navigateToNext", TRUE, FALSE, FALSE)
  /\ UNCHANGED <<isPaused, isRefreshing, pendingRefresh, refreshTimeout,
                 flatDiagnosticsList, badge, message, hostVars>>
  /\ Admitted

NavigateToPrevious ==
  /\ currentIndex' = navigateToPrevious(flatDiagnosticsList, currentIndex).currentIndex
  /\ History("navigateToPrevious", TRUE, FALSE, FALSE)
  /\ UNCHANGED <<isPaused, isRefreshing, pendingRefresh, refreshTimeout,
                 flatDiagnosticsList, badge, message, hostVars>>
  /\ Admitted

Next ==
  \/ Refresh
  \/ RefreshImmediate
  \/ TogglePause
  \/ DebounceFire
  \/ FollowUpFire
  \/ Pull
  \/ Reveal
  \/ \E s \in scans, items \in ScanResults : BadgeScanDone(s, items)
  \/ \E s \in scans : BadgeScanFail(s)
  \/ \E s \in scans, items \in ScanResults : ChildrenScanDone(s, items)
  \/ \E s \in scans : ChildrenScanFail(s)
  \/ NavigateToNext
  \/ NavigateToPrevious

Spec == Init /\ [][Next]_vars

\* Timers fire, the display surface answers every data-changed event, and
\* every scan settles.
Settle(id) ==
  \E s \in scans :
    /\ s.id = id
    /\ \/ \E items \in ScanResults : BadgeScanDone(s, items)
       \/ BadgeScanFail(s)
       \/ \E items \in ScanResults : ChildrenScanDone(s, items)
       \/ ChildrenScanFail(s)

Fairness ==
  /\ WF_vars(DebounceFire)
  /\ WF_vars(FollowUpFire)
  /\ WF_vars(Pull)
  /\ \A id \in 1..MaxOutstanding : WF_vars(Settle(id))

FairSpec == Spec /\ Fairness

\* ------------------------------------------------------------------ claims

\* A step begins a call of getDiagnostics.
ScanBegins == \E s \in scans' : \A r \in scans : r.id # s.id

\* A step settles a scan that saw a request arrive while it ran.
HitScanSettles == \E s \in scans : s.hit /\ \A r \in scans' : r.id # s.id

\* The Error items of a list, counted position by position.
Errors(list) == Cardinality({i \in 1..Len(list) : list[i].severity = "Error"})

\* C1: at most one call of getDiagnostics is in flight at any time, whether
\* getChildren or the background badge refresh began it.
C1_SingleFlight == Cardinality(scans) <= 1

\* C2: three refresh() calls made from Idle before the debounce timer fires,
\* and nothing after them, have led to exactly one scan once the system is
\* quiescent again.
C2_BurstOneScan ==
  (track.kind = "burst" /\ track.calls = 3 /\ Quiescent) => track.scans = 1

\* C3: when a scan settles after a refresh()/refreshImmediate() call arrived
\* while it ran, exactly one 100 ms follow-up is scheduled and pendingRefresh
\* is false afterwards.
C3_OneFollowUp ==
  [][HitScanSettles => (followUps' = followUps + 1 /\ ~pendingRefresh')]_vars

\* C4: no call of getDiagnostics begins while the coordinator is paused.
C4_NoScanWhilePaused == [][(isPaused /\ isPaused') => ~ScanBegins]_vars

\* C5: while isPaused, refresh() and refreshImmediate() change nothing:
\* isRefreshing, pendingRefresh, the debounce timer, the flat list,
\* currentIndex, the badge, the message, the displayed tree, and no
\* data-changed event is fired nor any scan or timer started.
C5_PausedRefreshNoop ==
  [][(isPaused /\ op' \in {"refresh", "refreshImmediate"})
       => UNCHANGED <<progVars, hostVars>>]_vars

\* A refresh() was made while paused with a debounce timer still pending.
C5_Witness == isPaused /\ op = "refresh" /\ refreshTimeout

\* C6: after a togglePause() that resumes, and with no request after it,
\* exactly one scan has begun once the system is quiescent again.
C6_ResumeOneScan == (track.kind = "resume" /\ Quiescent) => track.scans = 1

C9_OneScanVisible ==
  displayed # EmptyTree =>
    /\ flatDiagnosticsList = displayed
    /\ badge.kind = "count" => badge.value = Errors(displayed)

\* C10: a scan that completes successfully leaves the badge at the number N
\* of Error items of the flat list when N > 0, and cleared when N = 0.
C10_BadgeIsErrorCount ==
  [][op' \in {"badgeScanDone", "childrenScanDone"}
       => badge' = IF Errors(flatDiagnosticsList') > 0
                   THEN [kind |-> "count", value |-> Errors(flatDiagnosticsList')]
                   ELSE NoBadge]_vars

\* A scan completed with a list of one Error among other items.
C10_Witness ==
  /\ op \in {"badgeScanDone", "childrenScanDone"}
  /\ badge = [kind |-> "count", value |-> 1]
  /\ Len(flatDiagnosticsList) > 1

\* C11: when a scan rejects, the failure is contained: the message shows the
\* error state, the badge is cleared (not left as the scanning badge) and
\* isRefreshing is false afterwards.
C11_FailureContained ==
  [][op' \in {"badgeScanFail", "childrenScanFail"}
       => (message' = "error" /\ badge' = NoBadge /\ ~isRefreshing')]_vars

\* C13: in every reachable state currentIndex is -1 or an index of the flat
\* list counted from 0: 0 <= currentIndex < Len(flatDiagnosticsList).
C13_IndexInRange ==
  \/ currentIndex = -1
  \/ (0 <= currentIndex /\ currentIndex < Len(flatDiagnosticsList))

\* A rescan shrank the flat list under an index that navigation had advanced.
C13_StaleIndex ==
  /\ op \in {"badgeScanDone", "childrenScanDone"}
  /\ currentIndex > 0
  /\ currentIndex >= Len(flatDiagnosticsList)

\* C12: whenever a scan's tree is on display, flatDiagnosticsList is the
\* sequence of the diagnostic leaves of that tree, read depth first and left
\* to right, whichever group mode (file, errorType, both) the tree was
\* grouped in.
C12_FlatMatchesTree ==
  \A mode \in GroupModes :
    displayed # EmptyTree =>
      flatDiagnosticsList = flattenDiagnostics(groupDiagnostics(displayed, mode))

\* ------------------------------------------------- groupDiagnostics alone

\* The longest record list groupDiagnostics is called with.
MaxItems == 3

\* Records getDiagnostics can return: two files of the workspace, a finding
\* of the type checker (source 'ts', a number code), of the linter (source
\* 'eslint', a rule id or none), and, in scanMode 'open', findings of
\* other extensions with no source or no code.
RecordPool ==
  { [type |-> "diagnostic", uri |-> <<"/", "w", "/", "b", ".", "t", "s">>,
     severity |-> "Error",
     source |-> Str(<<"t", "s">>), code |-> Num(2322)],
    [type |-> "diagnostic", uri |-> <<"/", "w", "/", "a", ".", "t", "s">>,
     severity |-> "Error",
     source |-> Str(<<"t", "s">>), code |-> Num(2322)],
    [type |-> "diagnostic", uri |-> <<"/", "w", "/", "a", ".", "t", "s">>,
     severity |-> "Warning",
     source |-> Str(<<"e", "s", "l", "i", "n", "t">>),
     code |-> Str(<<"s", "e", "m", "i">>)],
    [type |-> "diagnostic", uri |-> <<"/", "w", "/", "b", ".", "t", "s">>,
     severity |-> "Error",
     source |-> Str(<<"e", "s", "l", "i", "n", "t">>), code |-> Undefined],
    [type |-> "diagnostic", uri |-> <<"/", "w", "/", "a", ".", "t", "s">>,
     severity |-> "Warning",
     source |-> Undefined, code |-> Str(<<"s", "e", "m", "i">>)],
    [type |-> "diagnostic", uri |-> <<"/", "x", ".", "t", "s">>,
     severity |-> "Hint",
     source |-> Undefined, code |-> Undefined] }

\* The lists of at most n records of a set.
RECURSIVE ListsUpTo(_, _)
ListsUpTo(S, n) ==
  IF n = 0 THEN { <<>> }
  ELSE LET shorter == ListsUpTo(S, n - 1)
       IN  shorter \cup { Append(l, x) : l \in shorter, x \in S }

\* The calls of groupDiagnostics: a record list and the value of the
\* setting lintmon.groupBy, one of the three modes or any other string.
GroupCalls ==
  { [fn |-> "groupDiagnostics", items |-> l, mode |-> m] :
      l \in ListsUpTo(RecordPool, MaxItems), m \in GroupModes \cup {"none"} }

GroupInit == CoordInit /\ call \in GroupCalls /\ ret = <<>>

\* groupDiagnostics as if fileMap and errorMap were kept between calls.
groupDiagnosticsCall_SharedMaps(items, mode, earlier) ==
  IF earlier = <<>> THEN groupDiagnostics(items, mode)
  ELSE groupDiagnostics(items \o items, mode)

\* What a call of groupDiagnostics returns after the earlier calls: its
\* maps are locals, nothing of an earlier call is read.
groupDiagnosticsCall(items, mode, earlier) == groupDiagnostics(items, mode)

\* getChildren calls groupDiagnostics(items, mode); the list and its
\* records are only read.
GroupDiagnostics ==
  /\ call.fn = "groupDiagnostics"
  /\ Len(ret) < 2
  /\ ret' = Append(ret, groupDiagnosticsCall(call.items, call.mode, ret))
  /\ call' = call
  /\ UNCHANGED coordVars

GroupNext == GroupDiagnostics

GroupSpec == GroupInit /\ [][GroupNext]_vars

\* The diagnostic leaves of a tree, counted node by node.
RECURSIVE LeafCount(_)
LeafCount(nodes) ==
  IF nodes = <<>> THEN 0
  ELSE (IF Head(nodes).type = "diagnostic" THEN 1 ELSE 0)
       + (IF "children" \in DOMAIN Head(nodes)
          THEN LeafCount(Head(nodes).children) ELSE 0)
       + LeafCount(Tail(nodes))

\* C14: for every record list and group mode, the flat navigation sequence
\* of the list is as long as the grouped tree returned for it has
\* diagnostic leaves.
C14_FlatLengthIsLeafCount ==
  (call.fn = "groupDiagnostics" /\ ret # <<>>)
    => Len(flattenDiagnostics(call.items)) = LeafCount(ret[1])

\* Three records of two files were grouped by file and rule.
C14_Witness ==
  /\ call.fn = "groupDiagnostics" /\ ret # <<>>
  /\ call.mode = "both"
  /\ Len(call.items) = 3
  /\ Len(ret[1]) = 2

\* How often a record occurs in a list.
Occurrences(x, list) == Cardinality({ i \in 1..Len(list) : list[i] = x })

\* C15: grouping in 'both' mode partitions the records 'file' mode groups:
\* there are the same file groups, and for every file the leaves under its
\* rule groups are, as a multiset, the leaves directly under that file's
\* group in 'file' mode.
C15_BothPartitionsFile ==
  (call.fn = "groupDiagnostics" /\ call.mode = "both" /\ ret # <<>>)
    => LET both == ret[1]
           file == groupByFile(call.items)
       IN  /\ Len(both) = Len(file)
           /\ \A i \in 1..Len(file) :
                \E j \in 1..Len(both) :
                  /\ both[j].uri = file[i].uri
                  /\ \A x \in RecordPool :
                       Occurrences(x, flattenDiagnostics(both[j].children))
                         = Occurrences(x, file[i].children)

\* In 'both' mode a file got two rule groups, one of them with two
\* records.
C15_Witness ==
  /\ call.fn = "groupDiagnostics" /\ call.mode = "both" /\ ret # <<>>
  /\ \E j \in 1..Len(ret[1]) :
       /\ Len(ret[1][j].children) = 2
       /\ \E k \in 1..2 : Len(ret[1][j].children[k].children) = 2

PathsOf(items) == { items[i].uri : i \in 1..Len(items) }

\* label is path made relative to the workspace folder.
IsRelativeLabel(label, path) ==
  \/ WorkspaceRoot \o label = path
  \/ /\ label = path
     /\ \A n \in 0..Len(path) : SubSeq(path, 1, n) # WorkspaceRoot

\* C17: groupByFile returns exactly one file group per distinct file path of
\* the records, labelled with the workspace-relative path; a group's
\* children are that file's records in arrival order; every record is a leaf
\* of exactly one group; and the groups are in ascending order of label.
C17_GroupByFile ==
  (call.fn = "groupDiagnostics" /\ call.mode = "file" /\ ret # <<>>)
    => LET tree == ret[1]
           items == call.items
       IN  /\ Len(tree) = Cardinality(PathsOf(items))
           /\ { tree[j].uri : j \in 1..Len(tree) } = PathsOf(items)
           /\ \A j \in 1..Len(tree) :
                /\ tree[j].type = "file"
                /\ IsRelativeLabel(tree[j].label, tree[j].uri)
                /\ tree[j].children
                     = SelectSeq(items, LAMBDA r : r.uri = tree[j].uri)
           /\ \A i \in 1..Len(items) :
                Cardinality({ j \in 1..Len(tree) :
                  \E k \in 1..Len(tree[j].children) :
                    tree[j].children[k] = items[i] }) = 1
           /\ \A j, k \in 1..Len(tree) :
                j < k => localeCompare(tree[j].label, tree[k].label) <= 0

\* Records arriving as b.ts, a.ts, b.ts were grouped by file.
C17_Witness ==
  /\ call.fn = "groupDiagnostics" /\ call.mode = "file" /\ ret # <<>>
  /\ Len(call.items) = 3
  /\ call.items[1].uri = <<"/", "w", "/", "b", ".", "t", "s">>
  /\ call.items[2].uri = <<"/", "w", "/", "a", ".", "t", "s">>
  /\ call.items[3].uri = call.items[1].uri
  /\ call.items[3] # call.items[1]
  /\ Len(ret[1]) = 2

\* A source or code with undefined read as the literal "unknown".
Normalized(v) ==
  IF v.t = "undefined" THEN <<"u", "n", "k", "n", "o", "w", "n">>
  ELSE StringOf(v)

\* The (source, code) pair of a record.
PairOf(r) == <<Normalized(r.source), Normalized(r.code)>>

\* The label of the rule group of a record: "{source}: {code}", or the
\* source alone for a record with no code.
RuleLabel(r) ==
  IF r.code.t = "undefined" THEN Normalized(r.source)
  ELSE Normalized(r.source) \o <<":", " ">> \o Normalized(r.code)

\* C18: groupByErrorType returns exactly one rule group per distinct
\* (source, code) pair, a missing source or code counting as "unknown" in
\* the grouping and in the label; the label is "{source}: {code}", or the
\* source alone when there is no code; a group holds the records of one pair
\* only; and the groups are in ascending order of label.
C18_GroupByErrorType ==
  (call.fn = "groupDiagnostics" /\ call.mode = "errorType" /\ ret # <<>>)
    => LET tree == ret[1]
           items == call.items
       IN  /\ Len(tree) = Cardinality({ PairOf(items[i]) : i \in 1..Len(items) })
           /\ \A j \in 1..Len(tree) :
                /\ tree[j].type = "errorType"
                /\ tree[j].children # <<>>
                /\ \A k \in 1..Len(tree[j].children) :
                     /\ PairOf(tree[j].children[k]) = PairOf(tree[j].children[1])
                     /\ tree[j].label = RuleLabel(tree[j].children[k])
           /\ \A j, k \in 1..Len(tree) :
                j < k => localeCompare(tree[j].label, tree[k].label) <= 0

\* A rule group is labelled "undefined: semi".
C18_UndefinedLabel ==
  /\ call.fn = "groupDiagnostics" /\ call.mode = "errorType" /\ ret # <<>>
  /\ \E j \in 1..Len(ret[1]) :
       ret[1][j].label
         = <<"u", "n", "d", "e", "f", "i", "n", "e", "d", ":", " ", "s", "e", "m", "i">>

\* ------------------------------------------- the severity filter alone

\* The longest list of findings one file is reported with.
MaxFindings == 3

\* convertDiagnostic of the type checker: no diagnostic for a finding with no
\* file, else the category mapped to a severity, wherever the finding
\* starts.  The result is a list of no or one diagnostic.
convertDiagnostic(tsDiag) ==
  IF ~tsDiag.file THEN <<>>
  ELSE << [severity |-> CASE tsDiag.category = "Error" -> "Error"
                          [] tsDiag.category = "Warning" -> "Warning"
                          [] tsDiag.category = "Suggestion" -> "Hint"
                          [] tsDiag.category = "Message" -> "Information"
                          [] OTHER -> "Error",
           source |-> Str(<<"t", "s">>),
           code |-> Num(tsDiag.code)] >>

\* convertMessage of the linter: severity 2 is Error, 1 is Warning, any
\* other Information.
convertMessage(eslintMessage) ==
  [severity |-> CASE eslintMessage.severity = 2 -> "Error"
                  [] eslintMessage.severity = 1 -> "Warning"
                  [] OTHER -> "Information",
   source |-> Str(<<"e", "s", "l", "i", "n", "t">>),
   code |-> eslintMessage.ruleId]

\* The severity filter letting Information and Hint through only while
\* warnings are shown.
passesSeverityFilter_WarningsAndBelow(diagnostic, showErrors, showWarnings) ==
  /\ ~(diagnostic.severity = "Error" /\ ~showErrors)
  /\ ~(diagnostic.severity # "Error" /\ ~showWarnings)

\* The two severity tests of the collecting loops: the diagnostic is not
\* skipped.
passesSeverityFilter(diagnostic, showErrors, showWarnings) ==
  /\ ~(diagnostic.severity = "Error" /\ ~showErrors)
  /\ ~(diagnostic.severity = "Warning" /\ ~showWarnings)

\* The item pushed for a diagnostic of the file uri.
itemOf(diagnostic, uri) ==
  [type |-> "diagnostic", uri |-> uri, severity |-> diagnostic.severity,
   source |-> diagnostic.source, code |-> diagnostic.code]

\* The loop over the diagnostics of one file of the type checker.
RECURSIVE collectTypeScript(_, _, _, _)
collectTypeScript(diagnostics, uri, showErrors, showWarnings) ==
  IF diagnostics = <<>> THEN <<>>
  ELSE LET converted == convertDiagnostic(Head(diagnostics))
           rest == collectTypeScript(Tail(diagnostics), uri, showErrors, showWarnings)
       IN  IF converted = <<>> THEN rest
           ELSE IF ~passesSeverityFilter(converted[1], showErrors, showWarnings)
                THEN rest
                ELSE <<itemOf(converted[1], uri)>> \o rest

\* The loop over the diagnostics of one file of the linter.
RECURSIVE collectESLint(_, _, _, _)
collectESLint(diagnostics, uri, showErrors, showWarnings) ==
  IF diagnostics = <<>> THEN <<>>
  ELSE LET rest == collectESLint(Tail(diagnostics), uri, showErrors, showWarnings)
       IN  IF ~passesSeverityFilter(Head(diagnostics), showErrors, showWarnings)
           THEN rest
           ELSE <<itemOf(Head(diagnostics), uri)>> \o rest

\* What the type checker reports for a file: every category, at the start
\* of the file (offset 0) or further on.
TsFindings ==
  { [file |-> TRUE, start |-> s, category |-> c, code |-> 2322] :
      s \in {0, 7}, c \in {"Error", "Warning", "Suggestion", "Message"} }

\* What the linter reports for a file: the messages, already converted.
ESLintFindings ==
  { convertMessage([severity |-> n, ruleId |-> Str(<<"s", "e", "m", "i">>)]) :
      n \in {0, 1, 2} }

SourceFile == <<"/", "w", "/", "a", ".", "t", "s">>

\* The findings of one file of either producer, and the two settings.
FilterCalls ==
  { [fn |-> "collect", producer |-> "typescript", diagnostics |-> l,
     showErrors |-> e, showWarnings |-> w] :
      l \in ListsUpTo(TsFindings, MaxFindings), e \in BOOLEAN, w \in BOOLEAN }
  \cup
  { [fn |-> "collect", producer |-> "eslint", diagnostics |-> l,
     showErrors |-> e, showWarnings |-> w] :
      l \in ListsUpTo(ESLintFindings, MaxFindings), e \in BOOLEAN, w \in BOOLEAN }

FilterInit == CoordInit /\ call \in FilterCalls /\ ret = <<>>

\* collectFromFullProjectScan runs the loop of the type checker on a file.
CollectTypeScript ==
  /\ call.fn = "collect" /\ call.producer = "typescript"
  /\ ret = <<>>
  /\ ret' = <<collectTypeScript(call.diagnostics, SourceFile,
                                call.showErrors, call.showWarnings)>>
  /\ UNCHANGED <<call, coordVars>>

\* collectFromFullProjectScan runs the loop of the linter on a file.
CollectESLint ==
  /\ call.fn = "collect" /\ call.producer = "eslint"
  /\ ret = <<>>
  /\ ret' = <<collectESLint(call.diagnostics, SourceFile,
                            call.showErrors, call.showWarnings)>>
  /\ UNCHANGED <<call, coordVars>>

FilterNext == CollectTypeScript \/ CollectESLint

FilterSpec == FilterInit /\ [][FilterNext]_vars

\* The severity a finding of a producer is mapped to.
MappedSeverity(producer, finding) ==
  IF producer = "eslint" THEN finding.severity
  ELSE CASE finding.category = "Suggestion" -> "Hint"
         [] finding.category = "Message" -> "Information"
         [] OTHER -> finding.category

\* The mapped severities of the findings that are to survive, in order.
RECURSIVE SeveritiesKept(_, _, _, _)
SeveritiesKept(producer, findings, showErrors, showWarnings) ==
  IF findings = <<>> THEN <<>>
  ELSE LET s == MappedSeverity(producer, Head(findings))
           rest == SeveritiesKept(producer, Tail(findings), showErrors, showWarnings)
       IN  IF (s = "Error" /\ ~showErrors) \/ (s = "Warning" /\ ~showWarnings)
           THEN rest
           ELSE <<s>> \o rest

\* C19: of the findings collected for a file, one is dropped iff it is an
\* Error and showErrors is false, or a Warning and showWarnings is false;
\* Information and Hint findings always pass, and the survivors keep their
\* order.
C19_SeverityFilter ==
  (call.fn = "collect" /\ ret # <<>>)
    => /\ Len(ret[1]) = Len(SeveritiesKept(call.producer, call.diagnostics,
                                           call.showErrors, call.showWarnings))
       /\ \A i \in 1..Len(ret[1]) :
            ret[1][i].severity
              = SeveritiesKept(call.producer, call.diagnostics,
                               call.showErrors, call.showWarnings)[i]

\* The type checker reported [Error, Warning, Information] with
\* showWarnings = false, and [Error, Information] was collected.
C19_Witness ==
  /\ call.fn = "collect" /\ call.producer = "typescript" /\ ret # <<>>
  /\ call.showErrors /\ ~call.showWarnings
  /\ Len(call.diagnostics) = 3
  /\ call.diagnostics[1].category = "Error"
  /\ call.diagnostics[2].category = "Warning"
  /\ call.diagnostics[3].category = "Message"
  /\ Len(ret[1]) = 2
  /\ ret[1][1].severity = "Error"
  /\ ret[1][2].severity = "Information"

\* ------------------------------------------------ the exclude check alone

\* The longest list of exclude patterns.
MaxPatterns == 1

\* s with every occurrence of the string from, found from left to right and
\* not overlapping, replaced by to: String.prototype.replace with a global
\* regular expression of literal characters.
RECURSIVE ReplaceAll(_, _, _)
ReplaceAll(s, from, to) ==
  IF Len(s) < Len(from) THEN s
  ELSE IF SubSeq(s, 1, Len(from)) = from
       THEN to \o ReplaceAll(SubSeq(s, Len(from) + 1, Len(s)), from, to)
       ELSE <<Head(s)>> \o ReplaceAll(Tail(s), from, to)

\* The class [^/]* as it is written in a regular expression.
NotSlashStar == <<"[", "^", "/", "]", "*">>

\* The source of the regular expression made of a pattern:
\* pattern.replace(/\*\*/g, '.*').replace(/\*/g, '[^/]*').
globToRegex(pattern) ==
  ReplaceAll(ReplaceAll(pattern, <<"*", "*">>, <<".", "*">>), <<"*">>, NotSlashStar)

\* The regular expression matches str from its first character on, up to
\* its end if toEnd.  In the expressions globToRegex makes of the patterns
\* used here, [^/]* is any run of characters other than '/', '.' is any
\* one character and every other character is itself.
RECURSIVE MatchHere(_, _, _)
MatchHere(regex, str, toEnd) ==
  IF regex = <<>> THEN (~toEnd \/ str = <<>>)
  ELSE IF /\ Len(regex) >= Len(NotSlashStar)
          /\ SubSeq(regex, 1, Len(NotSlashStar)) = NotSlashStar
       THEN \E k \in 0..Len(str) :
              /\ \A i \in 1..k : str[i] # "/"
              /\ MatchHere(SubSeq(regex, Len(NotSlashStar) + 1, Len(regex)),
                           SubSeq(str, k + 1, Len(str)), toEnd)
       ELSE /\ str # <<>>
            /\ (Head(regex) = "." \/ Head(regex) = Head(str))
            /\ MatchHere(Tail(regex), Tail(str), toEnd)

\* RegExp.prototype.test as if the expression were anchored at both ends.
regexTest_Anchored(regex, str) == MatchHere(regex, str, TRUE)

\* RegExp.prototype.test: the expression matches somewhere in str.
regexTest(regex, str) ==
  \E start \in 1..(Len(str) + 1) :
    MatchHere(regex, SubSeq(str, start, Len(str)), FALSE)

\* The exclude check of a file path against the exclude patterns.
isExcluded(excludePatterns, filePath) ==
  \E i \in 1..Len(excludePatterns) :
    regexTest(globToRegex(excludePatterns[i]), asRelativePath(filePath))

\* Exclude patterns as users and framework detection configure them.
ExcludePatternPool ==
  { <<"*", "*", "/", "d", "i", "s", "t", "/", "*", "*">>,
    <<"*", "*", "/", "n", "o", "d", "e", "_", "m", "o", "d", "u", "l", "e",
      "s", "/", "*", "*">>,
    <<"d", "i", "s", "t">>,
    <<"*", ".", "j", "s">>,
    <<"s", "r", "c", "/", "*", "*", "/", "x", ".", "t", "s">>,
    <<"*", "*", "/", "*", ".", "d", ".", "t", "s">>,
    <<".", "n", "u", "x", "t", "/", "*", "*">>,
    <<"s", "r", "c", "/", "*">> }

\* Paths of files the producers report, relative to the workspace folder.
RelativePaths ==
  { <<"p", "a", "c", "k", "a", "g", "e", "s", "/", "a", "p", "p", "/", "d",
      "i", "s", "t", "/", "i", "n", "d", "e", "x", ".", "j", "s">>,
    <<"p", "a", "c", "k", "a", "g", "e", "s", "/", "a", "p", "p", "/", "d",
      "i", "s", "t", "i", "n", "c", "t", "/", "i", "n", "d", "e", "x", ".",
      "j", "s">>,
    <<"d", "i", "s", "t", "/", "i", "n", "d", "e", "x", ".", "j", "s">>,
    <<"s", "r", "c", "/", "a", "/", "b", "/", "x", ".", "t", "s">>,
    <<"s", "r", "c", "/", "x", ".", "t", "s">>,
    <<"i", "n", "d", "e", "x", ".", "j", "s">>,
    <<"s", "r", "c", "/", "a", ".", "d", ".", "t", "s">>,
    <<"n", "o", "d", "e", "_", "m", "o", "d", "u", "l", "e", "s", "/", "a",
      "/", "i", "n", "d", "e", "x", ".", "j", "s">>,
    <<".", "n", "u", "x", "t", "/", "a", ".", "t", "s">>,
    <<"s", "r", "c", "/", "i", "n", "d", "e", "x", ".", "j", "s", "x">> }

\* The calls of the exclude check: a list of patterns and the path of a file
\* of the workspace folder.
ExcludeCalls ==
  { [fn |-> "isExcluded", excludePatterns |-> l, filePath |-> WorkspaceRoot \o p] :
      l \in ListsUpTo(ExcludePatternPool, MaxPatterns), p \in RelativePaths }

ExcludeInit == CoordInit /\ call \in ExcludeCalls /\ ret = <<>>

\* A collecting loop checks a file against the exclude patterns.
IsExcluded ==
  /\ call.fn = "isExcluded"
  /\ ret = <<>>
  /\ ret' = <<isExcluded(call.excludePatterns, call.filePath)>>
  /\ UNCHANGED <<call, coordVars>>

ExcludeNext == IsExcluded

ExcludeSpec == ExcludeInit /\ [][ExcludeNext]_vars

DistPattern ==
  <<"*", "*", "/", "d", "i", "s", "t", "/", "*", "*">>

\* C20: the exclude check with the one pattern "**/dist/**" excludes the
\* relative path "packages/app/dist/index.js" and does not exclude
\* "packages/app/distinct/index.js".
C20_DistNotDistinct ==
  (call.fn = "isExcluded" /\ ret # <<>> /\ call.excludePatterns = <<DistPattern>>)
    => /\ (asRelativePath(call.filePath) =
             <<"p", "a", "c", "k", "a", "g", "e", "s", "/", "a", "p", "p",
               "/", "d", "i", "s", "t", "/", "i", "n", "d", "e", "x", ".",
               "j", "s">>)
          => ret[1] = TRUE
       /\ (asRelativePath(call.filePath) =
             <<"p", "a", "c", "k", "a", "g", "e", "s", "/", "a", "p", "p",
               "/", "d", "i", "s", "t", "i", "n", "c", "t", "/", "i", "n",
               "d", "e", "x", ".", "j", "s">>)
          => ret[1] = FALSE

\* The check of "packages/app/distinct/index.js" against "**/dist/**" has
\* answered.
C20_Witness ==
  /\ call.fn = "isExcluded" /\ ret # <<>>
  /\ call.excludePatterns = <<DistPattern>>
  /\ asRelativePath(call.filePath) =
       <<"p", "a", "c", "k", "a", "g", "e", "s", "/", "a", "p", "p", "/",
         "d", "i", "s", "t", "i", "n", "c", "t", "/", "i", "n", "d", "e",
         "x", ".", "j", "s">>
  /\ ret = <<FALSE>>

\* The segments of a path or of a pattern: the strings between its '/'.
RECURSIVE SplitSegments(_, _)
SplitSegments(s, current) ==
  IF s = <<>> THEN <<current>>
  ELSE IF Head(s) = "/" THEN <<current>> \o SplitSegments(Tail(s), <<>>)
  ELSE SplitSegments(Tail(s), Append(current, Head(s)))

\* A segment of a pattern matches a segment of a path: '*' stands for any
\* run of characters of the segment, every other character for itself.
RECURSIVE SegmentMatches(_, _)
SegmentMatches(pat, seg) ==
  IF pat = <<>> THEN seg = <<>>
  ELSE IF Head(pat) = "*"
       THEN \E k \in 0..Len(seg) :
              SegmentMatches(Tail(pat), SubSeq(seg, k + 1, Len(seg)))
       ELSE /\ seg # <<>>
            /\ Head(pat) = Head(seg)
            /\ SegmentMatches(Tail(pat), Tail(seg))

\* The segments of a pattern match the segments of a path: the segment "**"
\* stands for any sequence of segments, also the empty one.
RECURSIVE SegmentsMatch(_, _)
SegmentsMatch(pats, segs) ==
  IF pats = <<>> THEN segs = <<>>
  ELSE IF Head(pats) = <<"*", "*">>
       THEN \E k \in 0..Len(segs) :
              SegmentsMatch(Tail(pats), SubSeq(segs, k + 1, Len(segs)))
       ELSE /\ segs # <<>>
            /\ SegmentMatches(Head(pats), Head(segs))
            /\ SegmentsMatch(Tail(pats), Tail(segs))

\* Glob semantics: the pattern matches the relative path.
GlobMatches(pattern, relativePath) ==
  SegmentsMatch(SplitSegments(pattern, <<>>), SplitSegments(relativePath, <<>>))

\* C21: for every exclude pattern and relative path, the exclude check with
\* that one pattern answers as glob semantics do: "**" matches any sequence
\* of path segments, "*" matches within one segment, every other character
\* matches itself.
C21_AgreesWithGlob ==
  (call.fn = "isExcluded" /\ ret # <<>> /\ Len(call.excludePatterns) = 1)
    => ret[1] = GlobMatches(call.excludePatterns[1], asRelativePath(call.filePath))

\* The check of the top-level "dist/index.js" against "**/dist/**" has
\* answered that the file is not excluded.
C21_TopLevelDistKept ==
  /\ call.fn = "isExcluded"
  /\ call.excludePatterns = <<DistPattern>>
  /\ asRelativePath(call.filePath) =
       <<"d", "i", "s", "t", "/", "i", "n", "d", "e", "x", ".", "j", "s">>
  /\ GlobMatches(DistPattern, asRelativePath(call.filePath))
  /\ ret = <<FALSE>>

\* ----------------------------------------------------- the two producers

\* String.prototype.includes.
Includes(s, sub) ==
  \E i \in 1..(Len(s) - Len(sub) + 1) : SubSeq(s, i, i + Len(sub) - 1) = sub

\* String.prototype.endsWith.
EndsWith(s, suffix) ==
  /\ Len(s) >= Len(suffix)
  /\ SubSeq(s, Len(s) - Len(suffix) + 1, Len(s)) = suffix

\* Map.set: the value of an entry replaced, or a new last entry.
MapSet(map, key, value) ==
  IF MapHas(map, key)
  THEN [i \in 1..Len(map) |->
          IF map[i].key = key THEN [map[i] EXCEPT !.value = value] ELSE map[i]]
  ELSE Append(map, [key |-> key, value |-> value])

\* The key of the entry of the program-wide diagnostics.
GlobalKey == <<"_", "_", "g", "l", "o", "b", "a", "l", "_", "_">>

NodeModules ==
  <<"n", "o", "d", "e", "_", "m", "o", "d", "u", "l", "e", "s">>

\* The loop of the type checker over the source files of the program, from
\* the i-th on: a declaration file or a file of node_modules is skipped, the
\* diagnostics of any other file are computed and, if there are any, stored
\* under the name of the file.  Computing the diagnostics of the file
\* number crashAt throws.
RECURSIVE tsSourceFileLoop(_, _, _, _)
tsSourceFileLoop(sourceFiles, i, crashAt, diagnosticsMap) ==
  IF i > Len(sourceFiles) THEN [threw |-> FALSE, map |-> diagnosticsMap]
  ELSE LET sourceFile == sourceFiles[i]
       IN  IF \/ sourceFile.isDeclarationFile
              \/ Includes(sourceFile.fileName, NodeModules)
           THEN tsSourceFileLoop(sourceFiles, i + 1, crashAt, diagnosticsMap)
           ELSE IF i = crashAt THEN [threw |-> TRUE, map |-> diagnosticsMap]
           ELSE IF Len(sourceFile.diagnostics) > 0
                THEN tsSourceFileLoop(sourceFiles, i + 1, crashAt,
                       MapSet(diagnosticsMap, sourceFile.fileName,
                              sourceFile.diagnostics))
                ELSE tsSourceFileLoop(sourceFiles, i + 1, crashAt, diagnosticsMap)

\* getAllDiagnostics of the type checker.  A tsconfig that cannot be read
\* or parsed gives the empty map; an exception is caught and logged, and the
\* map as it is by then is returned; the program-wide diagnostics are
\* stored last.
tsGetAllDiagnostics(project) ==
  IF project.configError THEN <<>>
  ELSE LET looped == tsSourceFileLoop(project.sourceFiles, 1, project.crashAt, <<>>)
       IN  IF looped.threw THEN looped.map
           ELSE IF Len(project.allDiagnostics) > 0
                THEN MapSet(looped.map, GlobalKey, project.allDiagnostics)
                ELSE looped.map

\* The diagnostics of the messages of one result of the linter.
convertMessages(messages) ==
  [i \in 1..Len(messages) |-> convertMessage(messages[i])]

\* parseESLintResults: a result without messages is skipped, the converted
\* messages of any other are stored under its file path.
RECURSIVE parseESLintResults(_, _)
parseESLintResults(results, diagnosticsMap) ==
  IF results = <<>> THEN diagnosticsMap
  ELSE IF Len(Head(results).messages) = 0
       THEN parseESLintResults(Tail(results), diagnosticsMap)
       ELSE parseESLintResults(Tail(results),
              MapSet(diagnosticsMap, Head(results).filePath,
                     convertMessages(Head(results).messages)))

\* What the linter process wrote: nothing, text that is no JSON, or the
\* JSON text of a list of results.
NoOutput == [text |-> "empty"]
Garbage == [text |-> "garbage"]
JsonOf(results) == [text |-> "json", results |-> results]

\* JSON.parse throws on the text.
JsonParseThrows(stdout) == stdout.text # "json"

\* getAllDiagnostics of the linter treating every failure of the process as
\* a failure, whatever it wrote.
eslintGetAllDiagnostics_ErrorIsFailure(eslint) ==
  IF ~eslint.hasLocalESLint THEN <<>>
  ELSE IF eslint.exit = "ok" /\ ~JsonParseThrows(eslint.stdout)
       THEN parseESLintResults(eslint.stdout.results, <<>>)
       ELSE <<>>

\* getAllDiagnostics of the linter: without a local ESLint the empty map;
\* else the parsed output of the process.  If the process fails and the
\* error carries a non-empty stdout, that is parsed instead; every other
\* exception is logged and the empty map returned.
eslintGetAllDiagnostics(eslint) ==
  IF ~eslint.hasLocalESLint THEN <<>>
  ELSE IF eslint.exit = "ok"
       THEN IF JsonParseThrows(eslint.stdout) THEN <<>>
            ELSE parseESLintResults(eslint.stdout.results, <<>>)
       ELSE IF eslint.stdout # NoOutput
            THEN IF JsonParseThrows(eslint.stdout) THEN <<>>
                 ELSE parseESLintResults(eslint.stdout.results, <<>>)
            ELSE <<>>

\* ------------------------------------------------------- one full scan

\* The number of scans of one session.
MaxScans == 2

\* new RegExp(source) throws "Nothing to repeat": a '+' opens the
\* expression or follows a '*' or a '+'.  (Of the characters the patterns
\* used here are made of, '*' and '+' are the only quantifiers.)
RegExpThrows(source) ==
  \E i \in 1..Len(source) :
    /\ source[i] = "+"
    /\ (i = 1 \/ source[i - 1] \in {"*", "+"})

\* excludePatterns.some(...) from the i-th pattern on: "threw" if building
\* the regular expression of a pattern throws before a pattern has
\* matched, else "excluded" if a pattern matches, else "kept".
RECURSIVE excludeOutcome(_, _, _)
excludeOutcome(excludePatterns, i, relativePath) ==
  IF i > Len(excludePatterns) THEN "kept"
  ELSE IF RegExpThrows(globToRegex(excludePatterns[i])) THEN "threw"
  ELSE IF regexTest(globToRegex(excludePatterns[i]), relativePath) THEN "excluded"
  ELSE excludeOutcome(excludePatterns, i + 1, relativePath)

\* fileTypes.some(ext => filePath.endsWith(ext))
hasMatchingExtension(fileTypes, filePath) ==
  \E i \in 1..Len(fileTypes) : EndsWith(filePath, fileTypes[i])

\* The loop over the entries of the map of the type checker that also
\* turns the entry of the program-wide diagnostics into items.
RECURSIVE collectTsEntries_GlobalToo(_, _, _)
collectTsEntries_GlobalToo(tsDiagnostics, config, items) ==
  IF tsDiagnostics = <<>> THEN [threw |-> FALSE, items |-> items]
  ELSE LET filePath == Head(tsDiagnostics).key
           outcome == excludeOutcome(config.excludePatterns, 1,
                                     asRelativePath(filePath))
       IN  IF ~hasMatchingExtension(config.fileTypes, filePath)
           THEN collectTsEntries_GlobalToo(Tail(tsDiagnostics), config, items)
           ELSE IF outcome = "threw" THEN [threw |-> TRUE, items |-> items]
           ELSE IF outcome = "excluded"
                THEN collectTsEntries_GlobalToo(Tail(tsDiagnostics), config, items)
                ELSE collectTsEntries_GlobalToo(Tail(tsDiagnostics), config,
                       items \o collectTypeScript(Head(tsDiagnostics).value, filePath,
                                                  config.showErrors, config.showWarnings))

\* The loop over the entries of the map of the type checker: the entry of
\* the program-wide diagnostics is skipped, then a file of no configured
\* type, then an excluded file; the items of the diagnostics of any other
\* file are pushed.  An exception leaves the loop with the items pushed so
\* far.
RECURSIVE collectTsEntries(_, _, _)
collectTsEntries(tsDiagnostics, config, items) ==
  IF tsDiagnostics = <<>> THEN [threw |-> FALSE, items |-> items]
  ELSE LET filePath == Head(tsDiagnostics).key
           outcome == excludeOutcome(config.excludePatterns, 1,
                                     asRelativePath(filePath))
       IN  IF filePath = GlobalKey
           THEN collectTsEntries(Tail(tsDiagnostics), config, items)
           ELSE IF ~hasMatchingExtension(config.fileTypes, filePath)
           THEN collectTsEntries(Tail(tsDiagnostics), config, items)
           ELSE IF outcome = "threw" THEN [threw |-> TRUE, items |-> items]
           ELSE IF outcome = "excluded"
                THEN collectTsEntries(Tail(tsDiagnostics), config, items)
                ELSE collectTsEntries(Tail(tsDiagnostics), config,
                       items \o collectTypeScript(Head(tsDiagnostics).value, filePath,
                                                  config.showErrors, config.showWarnings))

\* The loop over the entries of the map of the linter.
RECURSIVE collectESLintEntries(_, _, _)
collectESLintEntries(eslintDiagnostics, config, items) ==
  IF eslintDiagnostics = <<>> THEN [threw |-> FALSE, items |-> items]
  ELSE LET filePath == Head(eslintDiagnostics).key
           outcome == excludeOutcome(config.excludePatterns, 1,
                                     asRelativePath(filePath))
       IN  IF ~hasMatchingExtension(config.fileTypes, filePath)
           THEN collectESLintEntries(Tail(eslintDiagnostics), config, items)
           ELSE IF outcome = "threw" THEN [threw |-> TRUE, items |-> items]
           ELSE IF outcome = "excluded"
                THEN collectESLintEntries(Tail(eslintDiagnostics), config, items)
                ELSE collectESLintEntries(Tail(eslintDiagnostics), config,
                       items \o collectESLint(Head(eslintDiagnostics).value, filePath,
                                              config.showErrors, config.showWarnings))

\* collectFromFullProjectScan.  config carries the settings and the exclude
\* patterns of the user and the framework together.  The type checker is
\* invoked if it is enabled and it and a tsconfig path are there, the
\* linter if it is enabled and there; an exception of either part is
\* caught and shown as an error message.  The result: the items, how often
\* each producer was invoked and the error messages shown.
collectFromFullProjectScan(provider, config, project, eslint) ==
  LET tsRuns == config.enableTypeScript /\ provider.tsChecker /\ provider.tsConfigPath
      tsPart == IF tsRuns
                THEN collectTsEntries(tsGetAllDiagnostics(project), config, <<>>)
                ELSE [threw |-> FALSE, items |-> <<>>]
      eslintRuns == config.enableESLint /\ provider.eslintChecker
      eslintPart == IF eslintRuns
                    THEN collectESLintEntries(eslintGetAllDiagnostics(eslint),
                                              config, tsPart.items)
                    ELSE [threw |-> FALSE, items |-> tsPart.items]
  IN  [items |-> eslintPart.items,
       tsInvoked |-> IF tsRuns THEN 1 ELSE 0,
       eslintInvoked |-> IF eslintRuns THEN 1 ELSE 0,
       errorMessages |-> (IF tsPart.threw THEN <<"typescript">> ELSE <<>>)
                           \o (IF eslintPart.threw THEN <<"eslint">> ELSE <<>>)]

\* The provider before its first scan.
NewProvider ==
  [configDetector |-> FALSE, frameworkDetector |-> FALSE, tsChecker |-> FALSE,
   eslintChecker |-> FALSE, configsValidated |-> FALSE, tsConfigPath |-> FALSE]

\* The provider after the first lines of getDiagnostics, if they do not
\* throw: with a workspace folder and no detector yet, the detectors and
\* the checkers are made and the configuration files looked for, once; the
\* tsconfig path is resolved if the type checker is enabled and a tsconfig
\* is found.
initialized(provider, config, workspace) ==
  IF ~provider.configDetector /\ workspace.workspaceFolders
  THEN [configDetector |-> TRUE, frameworkDetector |-> TRUE, tsChecker |-> TRUE,
        eslintChecker |-> TRUE, configsValidated |-> TRUE,
        tsConfigPath |-> IF provider.configsValidated THEN provider.tsConfigPath
                         ELSE config.enableTypeScript /\ workspace.tsConfigFound]
  ELSE provider

\* The constructor of the type checker throws: the first scan of a
\* workspace in which TypeScript cannot be loaded.
constructorThrows(provider, workspace) ==
  /\ ~provider.configDetector /\ workspace.workspaceFolders
  /\ ~workspace.typescriptFound

\* The provider after the constructor of the type checker has thrown: the
\* two detectors are made, the two checkers are not, no configuration file
\* has been looked for.
halfInitialized(provider) ==
  [provider EXCEPT !.configDetector = TRUE, !.frameworkDetector = TRUE]

\* The exclude patterns of a scan: those of the settings, then those of the
\* framework if there is a framework detector.
resolvedExcludes(provider, config, workspace) ==
  config.excludePatterns
    \o (IF provider.frameworkDetector THEN workspace.frameworkExcludes ELSE <<>>)

\* getDiagnostics in scan mode 'full', if it does not throw.
getDiagnostics(provider, config, workspace, project, eslint) ==
  LET ready == initialized(provider, config, workspace)
  IN  collectFromFullProjectScan(
        ready,
        [config EXCEPT !.excludePatterns = resolvedExcludes(ready, config, workspace)],
        project, eslint)

\* The settings of a scan: the two producer switches, the file types and
\* the exclude patterns.  A pattern of the settings may be one of which no
\* regular expression can be made.
BuildPattern == <<"*", "*", "/", "b", "u", "i", "l", "d", "/", "*", "*">>
InvalidPattern == <<"c", "+", "+">>

ScanFileTypes ==
  { <<<<".", "t", "s">>>>, <<<<".", "t", "s">>, <<".", "j", "s">>>>, << <<>> >> }

ScanConfigs ==
  { [enableTypeScript |-> t, enableESLint |-> e, showErrors |-> TRUE,
     showWarnings |-> TRUE, fileTypes |-> f, excludePatterns |-> x] :
      t \in BOOLEAN, e \in BOOLEAN, f \in ScanFileTypes,
      x \in { <<>>, <<DistPattern>>, <<InvalidPattern>> } }

\* The workspace: no folder is open; or one is, TypeScript can be loaded or
\* cannot, a tsconfig is found or is not, and a framework with exclude
\* patterns is detected or none is.
ScanWorkspaces ==
  { [workspaceFolders |-> FALSE, typescriptFound |-> TRUE, tsConfigFound |-> FALSE,
     frameworkExcludes |-> <<>>] }
  \cup
  { [workspaceFolders |-> TRUE, typescriptFound |-> f, tsConfigFound |-> c,
     frameworkExcludes |-> x] :
      f \in BOOLEAN, c \in BOOLEAN, x \in { <<>>, <<DistPattern, BuildPattern>> } }

\* The program of the type checker: a file with an error, a file in a dist
\* folder with a warning, and a program-wide diagnostic of the tsconfig.
TsSourceFiles ==
  << [fileName |-> <<"/", "w", "/", "s", "r", "c", "/", "a", ".", "t", "s">>,
      isDeclarationFile |-> FALSE,
      diagnostics |-> << [file |-> TRUE, start |-> 0, category |-> "Error",
                          code |-> 2322] >>],
     [fileName |-> <<"/", "w", "/", "p", "/", "d", "i", "s", "t", "/", "b", ".", "t", "s">>,
      isDeclarationFile |-> FALSE,
      diagnostics |-> << [file |-> TRUE, start |-> 7, category |-> "Warning",
                          code |-> 6133] >>] >>

TsAllDiagnostics ==
  << [file |-> TRUE, start |-> 0, category |-> "Error", code |-> 5023] >>

\* A run of the type checker: the tsconfig cannot be read; or the program
\* is checked, and the check of no file, of the first or of the second one
\* throws.
TsProjects ==
  { [configError |-> TRUE, sourceFiles |-> TsSourceFiles,
     allDiagnostics |-> TsAllDiagnostics, crashAt |-> 0] }
  \cup
  { [configError |-> FALSE, sourceFiles |-> TsSourceFiles,
     allDiagnostics |-> TsAllDiagnostics, crashAt |-> k] :
      k \in 0..Len(TsSourceFiles) }

\* The results the linter writes: a file with an error, a file of a
\* top-level dist folder with a warning, a file without messages.
ESLintResults ==
  << [filePath |-> <<"/", "w", "/", "s", "r", "c", "/", "a", ".", "t", "s">>,
      messages |-> << [severity |-> 2, ruleId |-> Str(<<"s", "e", "m", "i">>)] >>],
     [filePath |-> <<"/", "w", "/", "d", "i", "s", "t", "/", "c", ".", "j", "s">>,
      messages |-> << [severity |-> 1, ruleId |-> Undefined] >>],
     [filePath |-> <<"/", "w", "/", "d", ".", "t", "s">>,
      messages |-> <<>>] >>

\* A run of the linter: it is not installed; or its process ends normally
\* or with an error, having written the results, no JSON, or nothing.
ESLintRuns ==
  { [hasLocalESLint |-> FALSE, exit |-> "ok", stdout |-> NoOutput] }
  \cup
  { [hasLocalESLint |-> TRUE, exit |-> x, stdout |-> o] :
      x \in {"ok", "error"}, o \in {JsonOf(ESLintResults), Garbage, NoOutput} }

\* The sessions: settings, workspace and producers stay as they are from
\* scan to scan; the provider is new.
ScanCalls ==
  { [fn |-> "getDiagnostics", config |-> c, workspace |-> w, project |-> p,
     eslint |-> l, provider |-> NewProvider] :
      c \in ScanConfigs, w \in ScanWorkspaces, p \in TsProjects, l \in ESLintRuns }

ScanInit == CoordInit /\ call \in ScanCalls /\ ret = <<>>

\* A scan that ends: its outcome is recorded.
GetDiagnosticsResolves ==
  /\ call.fn = "getDiagnostics"
  /\ Len(ret) < MaxScans
  /\ ~constructorThrows(call.provider, call.workspace)
  /\ ret' = Append(ret,
       [rejected |-> FALSE,
        scan |-> getDiagnostics(call.provider, call.config, call.workspace,
                                call.project, call.eslint)])
  /\ call' = [call EXCEPT !.provider =
                initialized(call.provider, call.config, call.workspace)]
  /\ UNCHANGED coordVars

\* A scan that throws while the type checker is constructed.
GetDiagnosticsRejects ==
  /\ call.fn = "getDiagnostics"
  /\ Len(ret) < MaxScans
  /\ constructorThrows(call.provider, call.workspace)
  /\ ret' = Append(ret,
       [rejected |-> TRUE,
        scan |-> [items |-> <<>>, tsInvoked |-> 0, eslintInvoked |-> 0,
                  errorMessages |-> <<>>]])
  /\ call' = [call EXCEPT !.provider = halfInitialized(call.provider)]
  /\ UNCHANGED coordVars

ScanNext == GetDiagnosticsResolves \/ GetDiagnosticsRejects

ScanSpec == ScanInit /\ [][ScanNext]_vars

\* The items of a list that a producer gave: source 'ts' or 'eslint'.
ItemsOfSource(items, source) ==
  SelectSeq(items, LAMBDA item : item.source = Str(source))

\* The exclude patterns of the scans of the session.
SessionExcludes ==
  call.config.excludePatterns \o call.workspace.frameworkExcludes

\* The settings with the exclude patterns of the scans of the session.
SessionConfig == [call.config EXCEPT !.excludePatterns = SessionExcludes]

\* The type checker fails in the session: it cannot be loaded, or it is
\* run and the check of a file throws.
TypeCheckFails ==
  \/ ~call.workspace.typescriptFound
  \/ /\ call.config.enableTypeScript /\ call.workspace.tsConfigFound
     /\ ~call.project.configError /\ call.project.crashAt > 0

\* The linter fails in the session: its process ends with an error and has
\* written no results.
LintFails ==
  /\ call.config.enableESLint /\ call.eslint.hasLocalESLint
  /\ call.eslint.exit = "error" /\ JsonParseThrows(call.eslint.stdout)

\* C22: in a workspace folder, no scan rejects because a producer fails; if
\* the type checker fails and the linter is enabled, the linter is invoked
\* and the records of its files are in the result; if the linter fails, the
\* records of the type checker are in the result.
C22_ProducerIsolation ==
  (call.fn = "getDiagnostics" /\ call.workspace.workspaceFolders)
    => \A i \in 1..Len(ret) :
         /\ ~ret[i].rejected
         /\ (TypeCheckFails /\ call.config.enableESLint)
              => /\ ret[i].scan.eslintInvoked = 1
                 /\ ItemsOfSource(ret[i].scan.items, <<"e", "s", "l", "i", "n", "t">>)
                      = collectESLintEntries(eslintGetAllDiagnostics(call.eslint),
                                             SessionConfig, <<>>).items
         /\ (LintFails /\ call.config.enableTypeScript /\ call.workspace.tsConfigFound)
              => ItemsOfSource(ret[i].scan.items, <<"t", "s">>)
                   = collectTsEntries(tsGetAllDiagnostics(call.project),
                                      SessionConfig, <<>>).items

\* TypeScript cannot be loaded, the linter is enabled and has results: the
\* first scan has rejected, and the second has ended without invoking the
\* linter.
C22_LinterNeverInvoked ==
  /\ call.fn = "getDiagnostics" /\ call.workspace.workspaceFolders
  /\ ~call.workspace.typescriptFound
  /\ call.config.enableESLint /\ call.eslint.hasLocalESLint
  /\ call.eslint.stdout = JsonOf(ESLintResults)
  /\ Len(ret) = 2
  /\ ret[1].rejected
  /\ ~ret[2].rejected /\ ret[2].scan.eslintInvoked = 0 /\ ret[2].scan.items = <<>>

\* An error message of the producer was shown in the scan.
ErrorShown(scan, producer) ==
  \E k \in 1..Len(scan.errorMessages) : scan.errorMessages[k] = producer

\* C23: a producer that fails during a scan contributes no record to the
\* result of that scan, also when it fails after it has processed files.
C23_FailedProducerGivesNothing ==
  call.fn = "getDiagnostics"
    => \A i \in 1..Len(ret) :
         /\ (TypeCheckFails \/ ErrorShown(ret[i].scan, "typescript"))
              => ItemsOfSource(ret[i].scan.items, <<"t", "s">>) = <<>>
         /\ (LintFails \/ ErrorShown(ret[i].scan, "eslint"))
              => ItemsOfSource(ret[i].scan.items, <<"e", "s", "l", "i", "n", "t">>) = <<>>

\* The check of the second source file has thrown, and the scan has
\* returned the record of the first.
C23_PartialRecordsKept ==
  /\ call.fn = "getDiagnostics"
  /\ call.project.crashAt = 2 /\ ~call.project.configError
  /\ Len(ret) = 1 /\ ~ret[1].rejected
  /\ ret[1].scan.tsInvoked = 1
  /\ Len(ItemsOfSource(ret[1].scan.items, <<"t", "s">>)) = 1

\* C24: no item of the list a scan returns comes from the entry of the
\* program-wide diagnostics of the type checker.
C24_NoGlobalLeaf ==
  call.fn = "getDiagnostics"
    => \A i \in 1..Len(ret) :
         \A k \in 1..Len(ret[i].scan.items) :
           ret[i].scan.items[k].uri # GlobalKey

\* The type checker has stored its program-wide diagnostics, every file
\* type is configured and nothing excluded: the scan has returned the
\* records of the two source files only.
C24_Witness ==
  /\ call.fn = "getDiagnostics"
  /\ MapHas(tsGetAllDiagnostics(call.project), GlobalKey)
  /\ call.config.fileTypes = << <<>> >>
  /\ SessionExcludes = <<>>
  /\ Len(ret) = 1
  /\ ret[1].scan.tsInvoked = 1
  /\ Len(ItemsOfSource(ret[1].scan.items, <<"t", "s">>)) = 2

\* C25: in a scan that ends, the type checker is invoked iff it is enabled
\* and a tsconfig path was resolved, and the linter iff it is enabled; each
\* at most once, and a producer that is switched off gives no record.
C25_ProducersInvokedIffEnabled ==
  call.fn = "getDiagnostics"
    => \A i \in 1..Len(ret) :
         ~ret[i].rejected
           => /\ ret[i].scan.tsInvoked \in {0, 1}
              /\ ret[i].scan.eslintInvoked \in {0, 1}
              /\ ret[i].scan.tsInvoked = 1
                   <=> (call.config.enableTypeScript /\ call.provider.tsConfigPath)
              /\ ret[i].scan.eslintInvoked = 1 <=> call.config.enableESLint
              /\ ~call.config.enableTypeScript
                   => ItemsOfSource(ret[i].scan.items, <<"t", "s">>) = <<>>
              /\ ~call.config.enableESLint
                   => ItemsOfSource(ret[i].scan.items, <<"e", "s", "l", "i", "n", "t">>) = <<>>

\* A scan of a workspace folder has ended with the linter enabled and
\* installed, and has not invoked it.
C25_EnabledLinterSkipped ==
  /\ call.fn = "getDiagnostics" /\ call.workspace.workspaceFolders
  /\ call.config.enableESLint /\ call.eslint.hasLocalESLint
  /\ Len(ret) = 2
  /\ ~ret[2].rejected /\ ret[2].scan.eslintInvoked = 0

\* Some pattern of the list matches the relative path by glob semantics.
GlobExcluded(excludePatterns, relativePath) ==
  \E k \in 1..Len(excludePatterns) : GlobMatches(excludePatterns[k], relativePath)

\* C26: a record is in the result of a scan only if the path of its file
\* ends with one of the configured file types and its relative path matches
\* no exclude pattern of the settings or of the framework, whichever
\* producer reported the file.
C26_FileLevelFilter ==
  call.fn = "getDiagnostics"
    => \A i \in 1..Len(ret) :
         \A k \in 1..Len(ret[i].scan.items) :
           /\ hasMatchingExtension(call.config.fileTypes, ret[i].scan.items[k].uri)
           /\ ~GlobExcluded(SessionExcludes, asRelativePath(ret[i].scan.items[k].uri))

\* The framework excludes "**/dist/**", and the scan has returned the record
\* the linter reported for dist/c.js.
C26_DistRecordKept ==
  /\ call.fn = "getDiagnostics"
  /\ call.config.excludePatterns = <<>>
  /\ call.workspace.frameworkExcludes = <<DistPattern, BuildPattern>>
  /\ Len(ret) = 1
  /\ \E k \in 1..Len(ret[1].scan.items) :
       /\ asRelativePath(ret[1].scan.items[k].uri)
            = <<"d", "i", "s", "t", "/", "c", ".", "j", "s">>
       /\ GlobExcluded(SessionExcludes, asRelativePath(ret[1].scan.items[k].uri))

\* The number of the scans so far in which an error message of the producer
\* was shown.
RECURSIVE NoticesUpTo(_, _)
NoticesUpTo(n, producer) ==
  IF n = 0 THEN 0
  ELSE NoticesUpTo(n - 1, producer)
         + (IF ErrorShown(ret[n].scan, producer) THEN 1 ELSE 0)

\* The producer failed in the i-th scan: it was invoked and threw or wrote
\* nothing that can be parsed, or its part of the scan threw.
FailedInScan(i, producer) ==
  \/ ErrorShown(ret[i].scan, producer)
  \/ /\ producer = "typescript" /\ ret[i].scan.tsInvoked = 1
     /\ ~call.project.configError /\ call.project.crashAt > 0
  \/ /\ producer = "eslint" /\ ret[i].scan.eslintInvoked = 1 /\ LintFails

\* C29: when a producer has failed in every scan so far, the user has seen
\* one notice for that producer.
C29_OneNoticePerProducer ==
  (call.fn = "getDiagnostics" /\ Len(ret) >= 1)
    => \A producer \in {"typescript", "eslint"} :
         (\A i \in 1..Len(ret) : FailedInScan(i, producer))
           => NoticesUpTo(Len(ret), producer) = 1

\* The linter part of both scans has thrown, and the user has seen two
\* notices for the linter.
C29_NoticePerScan ==
  /\ call.fn = "getDiagnostics"
  /\ Len(ret) = 2
  /\ FailedInScan(1, "eslint") /\ FailedInScan(2, "eslint")
  /\ NoticesUpTo(2, "eslint") = 2

\* ------------------------------------------------------ the linter alone

\* The longest list of results the linter writes.
MaxResults == 2

\* The results the linter may write for a file: the three of ESLintResults,
\* a file with two messages, and another result of the first file.
ESLintResultPool ==
  { ESLintResults[i] : i \in 1..Len(ESLintResults) }
  \cup
  { [filePath |-> <<"/", "w", "/", "e", ".", "j", "s">>,
     messages |-> << [severity |-> 1, ruleId |-> Str(<<"s", "e", "m", "i">>)],
                     [severity |-> 0, ruleId |-> Undefined] >>],
    [filePath |-> <<"/", "w", "/", "s", "r", "c", "/", "a", ".", "t", "s">>,
     messages |-> << [severity |-> 1, ruleId |-> Undefined] >>] }

\* The runs of the linter: not installed; or ended normally or with an
\* error, having written a list of results, no JSON, or nothing.
LintCalls ==
  { [fn |-> "eslintGetAllDiagnostics",
     eslint |-> [hasLocalESLint |-> FALSE, exit |-> "ok", stdout |-> NoOutput]] }
  \cup
  { [fn |-> "eslintGetAllDiagnostics",
     eslint |-> [hasLocalESLint |-> TRUE, exit |-> x, stdout |-> o]] :
      x \in {"ok", "error"},
      o \in {Garbage, NoOutput}
              \cup { JsonOf(l) : l \in ListsUpTo(ESLintResultPool, MaxResults) } }

LintInit == CoordInit /\ call \in LintCalls /\ ret = <<>>

\* The aggregator invokes the linter.
ESLintGetAllDiagnostics ==
  /\ call.fn = "eslintGetAllDiagnostics"
  /\ ret = <<>>
  /\ ret' = <<eslintGetAllDiagnostics(call.eslint)>>
  /\ UNCHANGED <<call, coordVars>>

LintNext == ESLintGetAllDiagnostics

LintSpec == LintInit /\ [][LintNext]_vars

\* The file paths of the results that have messages.
PathsWithMessages(results) ==
  { results[i].filePath : i \in { j \in 1..Len(results) : Len(results[j].messages) > 0 } }

\* C30: when the process of the linter ends with an error, the answer is,
\* if it wrote the JSON of a list of results, the one of a normal end with
\* the same output: an entry for every file with messages; and if it wrote
\* nothing or no JSON, the empty map.
C30_ErrorWithOutputIsSuccess ==
  (/\ call.fn = "eslintGetAllDiagnostics" /\ ret # <<>>
   /\ call.eslint.hasLocalESLint /\ call.eslint.exit = "error")
    => IF JsonParseThrows(call.eslint.stdout) THEN ret[1] = <<>>
       ELSE /\ ret[1] = eslintGetAllDiagnostics([call.eslint EXCEPT !.exit = "ok"])
            /\ { ret[1][k].key : k \in 1..Len(ret[1]) }
                 = PathsWithMessages(call.eslint.stdout.results)
            /\ \A k \in 1..Len(ret[1]) : Len(ret[1][k].value) > 0

\* The process has ended with an error having written the results of two
\* files with messages, and the answer has the entries of both.
C30_Witness ==
  /\ call.fn = "eslintGetAllDiagnostics" /\ ret # <<>>
  /\ call.eslint.hasLocalESLint /\ call.eslint.exit = "error"
  /\ call.eslint.stdout.text = "json"
  /\ Cardinality(PathsWithMessages(call.eslint.stdout.results)) = 2
  /\ Len(ret[1]) = 2

\* ------------------------------------------------- sessions of the extension

\* deactivate, then activate: the extension host of the old session is
\* gone with its timers and scans, and activate makes a new
\* DiagnosticsTreeProvider and a new tree view.  Nothing of the old
\* provider was stored, and the constructor reads nothing.
Reactivate ==
  /\ isPaused' = FALSE
  /\ isRefreshing' = FALSE
  /\ pendingRefresh' = FALSE
  /\ refreshTimeout' = FALSE
  /\ flatDiagnosticsList' = <<>>
  /\ currentIndex' = 0
  /\ badge' = NoBadge
  /\ message' = "none"
  /\ followUps' = 0
  /\ notifications' = 0
  /\ scans' = {}
  /\ displayed' = EmptyTree
  /\ op' = "activate"
  /\ track' = NoTrack
  /\ unserved' = FALSE
  /\ UNCHANGED funVars

SessionNext == Next \/ Reactivate

SessionSpec == Init /\ [][SessionNext]_vars

\* C27: a new session begins with isPaused as it was when the old one
\* ended.
C27_PausePersists ==
  [][op' = "activate" => isPaused' = isPaused]_vars

\* ------------------------------------------------------ the view is hidden

\* The display surface is not visible: it does not answer a data-changed
\* event with getChildren().
IgnoreEvent ==
  /\ notifications > 0
  /\ notifications' = notifications - 1
  /\ History("ignoreEvent", FALSE, FALSE, FALSE)
  /\ UNCHANGED <<progVars, followUps, scans, displayed>>

\* The steps of the coordinator while getChildren() is never called.
HiddenNext ==
  \/ Refresh
  \/ RefreshImmediate
  \/ TogglePause
  \/ DebounceFire
  \/ IgnoreEvent
  \/ \E s \in scans, items \in ScanResults : BadgeScanDone(s, items)
  \/ \E s \in scans : BadgeScanFail(s)
  \/ NavigateToNext
  \/ NavigateToPrevious

\* The debounce timer fires and every scan settles.
HiddenFairness ==
  /\ WF_vars(DebounceFire)
  /\ WF_vars(IgnoreEvent)
  /\ \A id \in 1..MaxOutstanding : WF_vars(Settle(id))

HiddenSpec == Init /\ [][HiddenNext]_vars /\ HiddenFairness

\* The debounce timer has just fired while no scan was running.
FiredWhileIdle ==
  /\ op = "debounceFire"
  /\ ~isRefreshing
  /\ Cardinality(scans) <= 1

\* A background scan has just ended and the badge is the number of the
\* Error items it returned, no badge if there is none.
BadgeShowsErrorCount ==
  /\ op = "badgeScanDone"
  /\ badge = IF ErrorCount(flatDiagnosticsList) > 0
             THEN [kind |-> "count", value |-> ErrorCount(flatDiagnosticsList)]
             ELSE NoBadge

\* C28: while the view is hidden, after the debounce timer of a refresh()
\* has fired with no scan running, a scan begun since ends and the badge
\* becomes its number of Error items, unless a scan rejects.
C28_BadgeUpdatedWhenHidden ==
  FiredWhileIdle ~> (BadgeShowsErrorCount \/ op = "badgeScanFail")

\* With the view never shown, a background scan has put a number on the
\* badge.
C28_Witness ==
  /\ BadgeShowsErrorCount
  /\ badge.kind = "count"
  /\ displayed = EmptyTree /\ ~isRefreshing

\* ------------------------------------------------- the coordinator, further

\* C35: isRefreshing is true exactly while a call of getDiagnostics is in
\* flight.
C35_RefreshingIffScanning == isRefreshing <=> scans # {}

\* The background scan of the debounce timer is in flight and isRefreshing
\* is false.
C35_BadgeScanUnflagged ==
  /\ op = "debounceFire"
  /\ \E s \in scans : s.origin = "badge"
  /\ ~isRefreshing

\* C38: while paused, the badge and the message are those of the pause and
\* the tree shown is empty.
C38_PausedStaysPaused ==
  isPaused => (badge = PausedBadge /\ message = "paused" /\ displayed = EmptyTree)

\* A scan that was in flight when the pause began has ended while paused
\* and has put its number of errors on the badge.
C38_ScanOverwritesPause ==
  /\ isPaused
  /\ op \in {"badgeScanDone", "childrenScanDone"}
  /\ badge.kind = "count"

\* C40: a pending refresh is only there while isRefreshing.
C40_PendingOnlyWhileRefreshing == pendingRefresh => isRefreshing

\* A refresh arrived during a scan of getChildren and is pending.
C40_Witness == pendingRefresh /\ isRefreshing /\ op \in {"refresh", "refreshImmediate"}

\* C39: with a non-empty flat list navigateToNext and navigateToPrevious leave
\* an index of the list, next from the last index goes to 0 and previous from 0
\* goes to the last index, and from an index of the list each undoes the
\* other; with an empty list both leave currentIndex alone and open nothing.
C39_NavigationWraps ==
  [][LET list == flatDiagnosticsList
         n == Len(list)
         nxt == navigateToNext(list, currentIndex)
         prv == navigateToPrevious(list, currentIndex)
     IN op' \in {"navigateToNext", "navigateToPrevious"} =>
          /\ n > 0 =>
               /\ 0 <= currentIndex' /\ currentIndex' < n
               /\ (op' = "navigateToNext" /\ currentIndex = n - 1) => currentIndex' = 0
               /\ (op' = "navigateToPrevious" /\ currentIndex = 0) => currentIndex' = n - 1
               /\ (0 <= currentIndex /\ currentIndex < n) =>
                    /\ navigateToPrevious(list, nxt.currentIndex).currentIndex = currentIndex
                    /\ navigateToNext(list, prv.currentIndex).currentIndex = currentIndex
               /\ Len(nxt.opened) = 1 /\ Len(prv.opened) = 1
          /\ n = 0 =>
               /\ currentIndex' = currentIndex
               /\ nxt.opened = <<>> /\ prv.opened = <<>>
    ]_vars

C39_Wrapped ==
  /\ op = "navigateToPrevious"
  /\ Len(flatDiagnosticsList) >= 2
  /\ currentIndex = Len(flatDiagnosticsList) - 1

C39_EmptyUntouched == op = "navigateToNext" /\ flatDiagnosticsList = <<>>

\* --------------------------- the provider's first scan, one await at a time

\* The calls of getDiagnostics of one provider.
MaxCalls == 3

\* A call of getDiagnostics waiting at one of its awaits: the await, the
\* setting enableTypeScript as the call last read it, and whether the call
\* began while the configuration files were still being looked for.
Waiting(id, pc, enableTypeScript, overlapped) ==
  [id |-> id, pc |-> pc, enableTypeScript |-> enableTypeScript,
   overlapped |-> overlapped]

\* A provider before its first scan, the setting enableTypeScript, and
\* whether the workspace has a tsconfig to be found.
ProviderInit ==
  /\ CoordInit
  /\ call \in { [provider |-> NewProvider, enableTypeScript |-> t,
                 tsConfigFound |-> f, changed |-> FALSE, started |-> 0,
                 running |-> {}, validateConfigsRuns |-> 0,
                 detectFrameworkRuns |-> 0] : t \in BOOLEAN, f \in BOOLEAN }
  /\ ret = <<>>

\* getDiagnostics up to its first await.  Without a detector yet the
\* detectors and the checkers are made and validateConfigs is called, which
\* reads the settings before it looks for files.  With a detector the call
\* reads the settings and asks for the exclude patterns of the framework.
GetDiagnosticsStarts ==
  /\ call.started < MaxCalls
  /\ LET id == call.started + 1
     IN call' =
          IF ~call.provider.configDetector
          THEN [call EXCEPT
                  !.provider = [@ EXCEPT !.configDetector = TRUE,
                                         !.frameworkDetector = TRUE,
                                         !.tsChecker = TRUE,
                                         !.eslintChecker = TRUE],
                  !.started = id,
                  !.validateConfigsRuns = @ + 1,
                  !.running = @ \cup {Waiting(id, "validateConfigs",
                                              call.enableTypeScript, FALSE)}]
          ELSE [call EXCEPT
                  !.started = id,
                  !.detectFrameworkRuns = @ + 1,
                  !.running = @ \cup {Waiting(id, "getFrameworkExcludePatterns",
                                              call.enableTypeScript,
                                              ~call.provider.configsValidated)}]
  /\ UNCHANGED <<ret, coordVars>>

\* validateConfigs resolves: the tsconfig path is the one found if the type
\* checker was enabled when validateConfigs was called; the framework is
\* detected for the log.
ValidateConfigsResolves(c) ==
  /\ c \in call.running /\ c.pc = "validateConfigs"
  /\ call' = [call EXCEPT
                !.provider = [@ EXCEPT !.tsConfigPath = c.enableTypeScript
                                                          /\ call.tsConfigFound,
                                       !.configsValidated = TRUE],
                !.detectFrameworkRuns = @ + 1,
                !.running = (@ \ {c}) \cup {[c EXCEPT !.pc = "detectFramework"]}]
  /\ UNCHANGED <<ret, coordVars>>

\* detectFramework resolves: the call reads the settings and asks for the
\* exclude patterns of the framework, which detects the framework again.
DetectFrameworkResolves(c) ==
  /\ c \in call.running /\ c.pc = "detectFramework"
  /\ call' = [call EXCEPT
                !.detectFrameworkRuns = @ + 1,
                !.running = (@ \ {c}) \cup
                  {Waiting(c.id, "getFrameworkExcludePatterns",
                           call.enableTypeScript, c.overlapped)}]
  /\ UNCHANGED <<ret, coordVars>>

\* The guard of the type checker in collectFromFullProjectScan.
typeScriptGuard(provider, enableTypeScript) ==
  enableTypeScript /\ provider.tsChecker /\ provider.tsConfigPath

\* getFrameworkExcludePatterns resolves: the full scan begins and decides
\* whether to ask the type checker.
FrameworkExcludesResolve(c) ==
  /\ c \in call.running /\ c.pc = "getFrameworkExcludePatterns"
  /\ call' = [call EXCEPT !.running = @ \ {c}]
  /\ ret' = Append(ret, [id |-> c.id, enableTypeScript |-> c.enableTypeScript,
                         tsConfigFound |-> call.tsConfigFound,
                         overlapped |-> c.overlapped, changed |-> call.changed,
                         tsInvoked |-> typeScriptGuard(call.provider,
                                                       c.enableTypeScript)])
  /\ UNCHANGED coordVars

\* The user changes the setting enableTypeScript.
ChangeConfiguration ==
  /\ call' = [call EXCEPT !.enableTypeScript = ~@, !.changed = TRUE]
  /\ UNCHANGED <<ret, coordVars>>

\* A tsconfig is written to the workspace or removed from it.
TsConfigChanges ==
  /\ call' = [call EXCEPT !.tsConfigFound = ~@, !.changed = TRUE]
  /\ UNCHANGED <<ret, coordVars>>

ProviderNext ==
  \/ GetDiagnosticsStarts
  \/ \E c \in call.running : ValidateConfigsResolves(c)
  \/ \E c \in call.running : DetectFrameworkResolves(c)
  \/ \E c \in call.running : FrameworkExcludesResolve(c)
  \/ ChangeConfiguration
  \/ TsConfigChanges

ProviderSpec == ProviderInit /\ [][ProviderNext]_<<funVars, coordVars>>

\* C31: over the scans of one provider validateConfigs runs at most once and
\* the framework with its exclude patterns is detected at most once.
C31_ResolvedOnce ==
  /\ call.validateConfigsRuns <= 1
  /\ call.detectFrameworkRuns <= 1

C31_DetectedPerScan ==
  /\ call.validateConfigsRuns = 1
  /\ Len(ret) = 2
  /\ call.running = {}
  /\ call.detectFrameworkRuns = 3

\* C36: a scan that began while the configuration files were being looked
\* for, with the type checker enabled and a tsconfig in the workspace all
\* along, asks the type checker.
C36_OverlappedScanTypeChecks ==
  \A i \in DOMAIN ret :
    (ret[i].overlapped /\ ~ret[i].changed
       /\ ret[i].enableTypeScript /\ ret[i].tsConfigFound)
      => ret[i].tsInvoked

C36_ScanBeforePathsResolved ==
  \E i \in DOMAIN ret :
    /\ ret[i].overlapped /\ ~ret[i].changed
    /\ ret[i].enableTypeScript /\ ret[i].tsConfigFound
    /\ ~ret[i].tsInvoked
    /\ ~call.provider.configsValidated

\* C37: a scan that began after the configuration files were looked for and
\* runs with the type checker enabled in a workspace with a tsconfig asks
\* the type checker.
C37_EnablementFollowsSettings ==
  \A i \in DOMAIN ret :
    (~ret[i].overlapped /\ ret[i].id > 1
       /\ ret[i].enableTypeScript /\ ret[i].tsConfigFound)
      => ret[i].tsInvoked

C37_EnabledLaterNeverChecked ==
  \E i \in DOMAIN ret :
    /\ ~ret[i].overlapped /\ ret[i].id > 1
    /\ ret[i].enableTypeScript /\ ret[i].tsConfigFound
    /\ ~ret[i].tsInvoked
    /\ call.provider.configsValidated

\* ------------------------------------- the detectors of configuration files

\* A path: absolute or relative, and its segments.  The workspace folder is
\* /w; the empty relative path is the empty string.
AbsPath(segs) == [abs |-> TRUE, segs |-> segs]
RelPath(segs) == [abs |-> FALSE, segs |-> segs]
RootFolder == AbsPath(<<"w">>)
NoPath == RelPath(<<>>)

\* path.normalize on the segments: '.' is dropped and '..' drops the segment
\* before it.
RECURSIVE pathNormalize(_, _)
pathNormalize(done, segs) ==
  IF segs = <<>> THEN done
  ELSE IF Head(segs) = "." THEN pathNormalize(done, Tail(segs))
  ELSE IF Head(segs) = ".."
       THEN pathNormalize(IF done = <<>> THEN done
                          ELSE SubSeq(done, 1, Len(done) - 1), Tail(segs))
  ELSE pathNormalize(Append(done, Head(segs)), Tail(segs))

\* path.join of a folder and a path.
pathJoin(folder, p) ==
  [abs |-> folder.abs, segs |-> pathNormalize(<<>>, folder.segs \o p.segs)]

\* fs.access succeeds: the path names a file of the file system, whose files
\* are given by their normalised absolute paths.
fileExists(files, p) ==
  p.abs /\ AbsPath(pathNormalize(<<>>, p.segs)) \in files

\* The answer of a search: a path, or undefined; and whether a warning was
\* shown.
FoundAt(p, warned) == [found |-> TRUE, path |-> p, warned |-> warned]
NotFound(warned) == [found |-> FALSE, path |-> NoPath, warned |-> warned]

\* The first path of the list, joined to the workspace folder, that exists.
firstExisting(files, names, warned) ==
  LET hits == { i \in DOMAIN names :
                  fileExists(files, pathJoin(RootFolder, RelPath(names[i]))) }
  IN IF hits = {} THEN NotFound(warned)
     ELSE FoundAt(pathJoin(RootFolder,
                           RelPath(names[CHOOSE i \in hits : \A j \in hits : i <= j])),
                  warned)

\* findTsConfig looking at the common locations before the user's path.
findTsConfig_CommonFirst(files, customPath) ==
  LET fullPath == IF customPath.abs THEN customPath
                  ELSE pathJoin(RootFolder, customPath)
      common == firstExisting(files,
                  << <<"tsconfig.json">>, <<"tsconfig.base.json">>,
                     <<"tsconfig.build.json">>, <<"apps", "tsconfig.json">>,
                     <<"packages", "tsconfig.json">> >>, FALSE)
  IN IF common.found THEN common
     ELSE IF customPath.segs # <<>> /\ fileExists(files, fullPath)
     THEN FoundAt(fullPath, FALSE)
     ELSE NotFound(customPath.segs # <<>>)

\* ConfigDetector.findTsConfig with the setting tsConfigPath.
findTsConfig(files, customPath) ==
  LET fullPath == IF customPath.abs THEN customPath
                  ELSE pathJoin(RootFolder, customPath)
  IN IF customPath.segs # <<>> /\ fileExists(files, fullPath)
     THEN FoundAt(fullPath, FALSE)
     ELSE firstExisting(files,
            << <<"tsconfig.json">>, <<"tsconfig.base.json">>,
               <<"tsconfig.build.json">>, <<"apps", "tsconfig.json">>,
               <<"packages", "tsconfig.json">> >>,
            customPath.segs # <<>>)

\* ConfigDetector.findEslintConfig with the setting eslintConfigPath.  The
\* package.json, if there is one, cannot be parsed, has no eslintConfig
\* field, has one of a falsy value, or has one of an object.
findEslintConfig(files, packageJson, customPath) ==
  LET fullPath == IF customPath.abs THEN customPath
                  ELSE pathJoin(RootFolder, customPath)
      warned == customPath.segs # <<>>
      flat == firstExisting(files,
                << <<"eslint.config.js">>, <<"eslint.config.mjs">>,
                   <<"eslint.config.cjs">>, <<"eslint.config.ts">>,
                   <<"eslint.config.mts">>, <<"eslint.config.cts">> >>, warned)
      legacy == firstExisting(files,
                  << <<".eslintrc.js">>, <<".eslintrc.cjs">>, <<".eslintrc.yaml">>,
                     <<".eslintrc.yml">>, <<".eslintrc.json">>, <<".eslintrc">> >>,
                  warned)
      packageJsonPath == pathJoin(RootFolder, RelPath(<<"package.json">>))
  IN IF customPath.segs # <<>> /\ fileExists(files, fullPath)
     THEN FoundAt(fullPath, FALSE)
     ELSE IF flat.found THEN flat
     ELSE IF legacy.found THEN legacy
     ELSE IF fileExists(files, packageJsonPath) /\ packageJson = "eslintConfig"
     THEN FoundAt(packageJsonPath, warned)
     ELSE NotFound(warned)

\* ESLintChecker.hasFlatConfig.
hasFlatConfig(files) ==
  firstExisting(files,
    << <<"eslint.config.js">>, <<"eslint.config.mjs">>, <<"eslint.config.cjs">> >>,
    FALSE).found

\* FrameworkDetector.hasFile.
hasFile(files, fileName) ==
  fileExists(files, pathJoin(RootFolder, RelPath(<<fileName>>)))

\* FrameworkDetector.hasPackage: the package.json is read and parsed, and the
\* name looked for in its dependencies and devDependencies.
hasPackage(files, packageJson, packageName) ==
  /\ hasFile(files, "package.json")
  /\ packageJson.parses
  /\ packageName \in packageJson.dependencies \cup packageJson.devDependencies

Framework(name, excludePatterns, useVueTsc) ==
  [detected |-> TRUE, name |-> name, excludePatterns |-> excludePatterns,
   useVueTsc |-> useVueTsc]
NoFramework ==
  [detected |-> FALSE, name |-> "", excludePatterns |-> <<>>, useVueTsc |-> FALSE]

\* detectFramework asking for NestJS only after Vue and React.
detectFramework_NestAfterVite(files, packageJson) ==
  IF hasFile(files, "nuxt.config.ts") \/ hasFile(files, "nuxt.config.js")
  THEN Framework("Nuxt", <<"**/.nuxt/**", "**/.output/**", "**/dist/**">>, TRUE)
  ELSE IF hasFile(files, "next.config.js") \/ hasFile(files, "next.config.mjs")
  THEN Framework("Next.js", <<"**/.next/**", "**/out/**", "**/build/**">>, FALSE)
  ELSE IF hasFile(files, "angular.json")
  THEN Framework("Angular", <<"**/dist/**", "**/.angular/**">>, FALSE)
  ELSE IF hasFile(files, "vite.config.ts")
            /\ hasPackage(files, packageJson, "@analogjs/platform")
  THEN Framework("Analog", <<"**/dist/**", "**/.angular/**", "**/node_modules/**">>,
                 FALSE)
  ELSE IF hasFile(files, "vite.config.ts") /\ hasPackage(files, packageJson, "vue")
  THEN Framework("Vue", <<"**/dist/**", "**/build/**">>, TRUE)
  ELSE IF hasFile(files, "vite.config.ts") /\ hasPackage(files, packageJson, "react")
  THEN Framework("React (Vite)", <<"**/dist/**", "**/build/**">>, FALSE)
  ELSE IF hasFile(files, "nest-cli.json")
  THEN Framework("NestJS", <<"**/dist/**", "**/build/**">>, FALSE)
  ELSE IF hasPackage(files, packageJson, "react-scripts")
  THEN Framework("Create React App", <<"**/build/**", "**/node_modules/**">>, FALSE)
  ELSE IF hasFile(files, "tsconfig.json")
  THEN Framework("TypeScript", <<"**/dist/**", "**/build/**", "**/out/**">>, FALSE)
  ELSE IF hasFile(files, "package.json")
  THEN Framework("JavaScript", <<"**/dist/**", "**/build/**", "**/out/**">>, FALSE)
  ELSE NoFramework

\* FrameworkDetector.detectFramework.
detectFramework(files, packageJson) ==
  IF hasFile(files, "nuxt.config.ts") \/ hasFile(files, "nuxt.config.js")
  THEN Framework("Nuxt", <<"**/.nuxt/**", "**/.output/**", "**/dist/**">>, TRUE)
  ELSE IF hasFile(files, "next.config.js") \/ hasFile(files, "next.config.mjs")
  THEN Framework("Next.js", <<"**/.next/**", "**/out/**", "**/build/**">>, FALSE)
  ELSE IF hasFile(files, "angular.json")
  THEN Framework("Angular", <<"**/dist/**", "**/.angular/**">>, FALSE)
  ELSE IF hasFile(files, "vite.config.ts")
            /\ hasPackage(files, packageJson, "@analogjs/platform")
  THEN Framework("Analog", <<"**/dist/**", "**/.angular/**", "**/node_modules/**">>,
                 FALSE)
  ELSE IF hasFile(files, "nest-cli.json")
  THEN Framework("NestJS", <<"**/dist/**", "**/build/**">>, FALSE)
  ELSE IF hasFile(files, "vite.config.ts") /\ hasPackage(files, packageJson, "vue")
  THEN Framework("Vue", <<"**/dist/**", "**/build/**">>, TRUE)
  ELSE IF hasFile(files, "vite.config.ts") /\ hasPackage(files, packageJson, "react")
  THEN Framework("React (Vite)", <<"**/dist/**", "**/build/**">>, FALSE)
  ELSE IF hasPackage(files, packageJson, "react-scripts")
  THEN Framework("Create React App", <<"**/build/**", "**/node_modules/**">>, FALSE)
  ELSE IF hasFile(files, "tsconfig.json")
  THEN Framework("TypeScript", <<"**/dist/**", "**/build/**", "**/out/**">>, FALSE)
  ELSE IF hasFile(files, "package.json")
  THEN Framework("JavaScript", <<"**/dist/**", "**/build/**", "**/out/**">>, FALSE)
  ELSE NoFramework

\* The files of the workspace folder of the given names.
InRoot(names) == { pathJoin(RootFolder, RelPath(<<n>>)) : n \in names }

\* The workspaces findTsConfig is asked about: any of the common locations
\* and of the places the user's path may point to exist; the user's path is
\* empty, relative, relative leaving the workspace folder, or absolute.
TsConfigCalls ==
  { [fn |-> "findTsConfig", files |-> f, customPath |-> p] :
      f \in SUBSET (InRoot({"tsconfig.json", "tsconfig.base.json",
                            "tsconfig.build.json"})
                    \cup { AbsPath(<<"w", "apps", "tsconfig.json">>),
                           AbsPath(<<"w", "packages", "tsconfig.json">>),
                           AbsPath(<<"w", "cfg", "tsconfig.app.json">>),
                           AbsPath(<<"shared", "tsconfig.json">>),
                           AbsPath(<<"opt", "tsconfig.json">>) }),
      p \in { NoPath, RelPath(<<"cfg", "tsconfig.app.json">>),
              RelPath(<<"..", "shared", "tsconfig.json">>),
              AbsPath(<<"opt", "tsconfig.json">>) } }

\* The workspaces findEslintConfig and hasFlatConfig are asked about: any of
\* the flat and legacy files exist, there is a package.json or none, and the
\* user's path is empty or names a file that exists or does not.
EslintConfigCalls ==
  { [fn |-> "eslintConfig", files |-> f \cup m.files \cup c.files,
     packageJson |-> m.packageJson, customPath |-> c.customPath] :
      f \in SUBSET InRoot({"eslint.config.js", "eslint.config.mjs",
                           "eslint.config.cjs", "eslint.config.ts",
                           "eslint.config.mts", "eslint.config.cts",
                           ".eslintrc.js", ".eslintrc.cjs", ".eslintrc.yaml",
                           ".eslintrc.yml", ".eslintrc.json", ".eslintrc"}),
      m \in { [files |-> {}, packageJson |-> "absent"] }
            \cup { [files |-> InRoot({"package.json"}), packageJson |-> j] :
                     j \in {"unparsable", "noField", "falsy", "eslintConfig"} },
      c \in { [files |-> {}, customPath |-> NoPath],
              [files |-> {}, customPath |-> RelPath(<<"cfg", "eslint.js">>)],
              [files |-> {AbsPath(<<"w", "cfg", "eslint.js">>)},
               customPath |-> RelPath(<<"cfg", "eslint.js">>)] } }

\* The workspaces detectFramework is asked about: any of the marker files
\* exist; a package.json, if there is one, cannot be parsed or lists any of
\* the packages looked for.
FrameworkCalls ==
  { [fn |-> "detectFramework", files |-> f, packageJson |-> j] :
      f \in SUBSET InRoot({"nuxt.config.ts", "nuxt.config.js", "next.config.js",
                           "next.config.mjs", "angular.json", "vite.config.ts",
                           "nest-cli.json", "tsconfig.json", "package.json"}),
      j \in { [parses |-> FALSE, dependencies |-> {}, devDependencies |-> {}] }
            \cup { [parses |-> TRUE, dependencies |-> d, devDependencies |-> v] :
                     d \in SUBSET {"@analogjs/platform", "vue", "react"},
                     v \in SUBSET {"vue", "react-scripts"} } }

TsConfigInit == CoordInit /\ call \in TsConfigCalls /\ ret = <<>>

\* validateConfigs looks for the tsconfig.
FindTsConfig ==
  /\ call.fn = "findTsConfig"
  /\ ret = <<>>
  /\ ret' = <<[fn |-> "findTsConfig",
               result |-> findTsConfig(call.files, call.customPath)]>>
  /\ UNCHANGED <<call, coordVars>>

\* validateConfigs looks for the configuration of the linter.
FindEslintConfig ==
  /\ call.fn = "eslintConfig"
  /\ ret = <<>>
  /\ ret' = <<[fn |-> "findEslintConfig",
               result |-> findEslintConfig(call.files, call.packageJson,
                                           call.customPath)]>>
  /\ UNCHANGED <<call, coordVars>>

\* The linter's checker decides between the two command lines.
HasFlatConfig ==
  /\ call.fn = "eslintConfig"
  /\ ret = <<>>
  /\ ret' = <<[fn |-> "hasFlatConfig", result |-> hasFlatConfig(call.files)]>>
  /\ UNCHANGED <<call, coordVars>>

\* The framework is detected, twice: for the log and for the exclude
\* patterns.
DetectFramework ==
  /\ call.fn = "detectFramework"
  /\ Len(ret) < 2
  /\ ret' = Append(ret, [fn |-> "detectFramework",
                         result |-> detectFramework(call.files, call.packageJson)])
  /\ UNCHANGED <<call, coordVars>>

TsConfigSpec == TsConfigInit /\ [][FindTsConfig]_vars

EslintConfigInit == CoordInit /\ call \in EslintConfigCalls /\ ret = <<>>

EslintConfigNext == FindEslintConfig \/ HasFlatConfig

EslintConfigSpec == EslintConfigInit /\ [][EslintConfigNext]_vars

FrameworkInit == CoordInit /\ call \in FrameworkCalls /\ ret = <<>>

FrameworkSpec == FrameworkInit /\ [][DetectFramework]_vars

\* The path under the workspace folder of the first name of the list that
\* names an existing file, as a set: empty if none does.
FirstListed(names, files) ==
  { AbsPath(<<"w">> \o names[i]) : i \in
      { k \in DOMAIN names :
          /\ AbsPath(<<"w">> \o names[k]) \in files
          /\ \A j \in 1..(k - 1) : AbsPath(<<"w">> \o names[j]) \notin files } }

\* The answer is the only path of the set, or undefined if the set is empty.
AnswerIs(result, paths) ==
  IF paths = {} THEN ~result.found ELSE result.found /\ result.path \in paths

\* The file the user's path names if it is set and the file exists, as a set.
OverrideOf(customPath, files) ==
  IF customPath = NoPath THEN {}
  ELSE { p \in { IF customPath.abs THEN customPath
                 ELSE pathJoin(RootFolder, customPath) } : fileExists(files, p) }

TsConfigNames ==
  << <<"tsconfig.json">>, <<"tsconfig.base.json">>, <<"tsconfig.build.json">>,
     <<"apps", "tsconfig.json">>, <<"packages", "tsconfig.json">> >>

\* C32: findTsConfig answers the user's path, absolute or joined to the
\* workspace folder, if it is set and exists; otherwise the first existing
\* one of tsconfig.json, tsconfig.base.json, tsconfig.build.json,
\* apps/tsconfig.json, packages/tsconfig.json; otherwise undefined.
C32_TsConfigResolution ==
  (ret # <<>> /\ ret[1].fn = "findTsConfig") =>
    LET override == OverrideOf(call.customPath, call.files)
    IN AnswerIs(ret[1].result,
                IF override # {} THEN override
                ELSE FirstListed(TsConfigNames, call.files))

C32_OverrideWins ==
  /\ ret # <<>> /\ ret[1].fn = "findTsConfig"
  /\ call.customPath = RelPath(<<"..", "shared", "tsconfig.json">>)
  /\ AbsPath(<<"w", "tsconfig.json">>) \in call.files
  /\ ret[1].result.path = AbsPath(<<"shared", "tsconfig.json">>)

FlatNames ==
  << <<"eslint.config.js">>, <<"eslint.config.mjs">>, <<"eslint.config.cjs">>,
     <<"eslint.config.ts">>, <<"eslint.config.mts">>, <<"eslint.config.cts">> >>

LegacyNames ==
  << <<".eslintrc.js">>, <<".eslintrc.cjs">>, <<".eslintrc.yaml">>,
     <<".eslintrc.yml">>, <<".eslintrc.json">>, <<".eslintrc">> >>

\* The package.json if it exists, parses and has an eslintConfig field.
ManifestWithField(packageJson, files) ==
  { p \in { AbsPath(<<"w", "package.json">>) } :
      p \in files /\ packageJson \in {"falsy", "eslintConfig"} }

\* The resolution of the linter's configuration in the order override, flat,
\* legacy, package.json.
EslintResolution ==
  LET override == OverrideOf(call.customPath, call.files)
      flat == FirstListed(FlatNames, call.files)
      legacy == FirstListed(LegacyNames, call.files)
  IN IF override # {} THEN override
     ELSE IF flat # {} THEN flat
     ELSE IF legacy # {} THEN legacy
     ELSE ManifestWithField(call.packageJson, call.files)

\* C33: findEslintConfig answers the user's path if set and existing, else
\* the first existing flat configuration, else the first existing legacy
\* one, else the package.json if it parses and has an eslintConfig field,
\* else undefined; and the linter's checker takes the configuration for a
\* flat one exactly if that resolution is a flat one.
C33_EslintResolutionAgrees ==
  ret # <<>> =>
    /\ ret[1].fn = "findEslintConfig" => AnswerIs(ret[1].result, EslintResolution)
    /\ (ret[1].fn = "hasFlatConfig" /\ OverrideOf(call.customPath, call.files) = {}) =>
         (ret[1].result <=> (EslintResolution # {}
                               /\ EslintResolution = FirstListed(FlatNames, call.files)))

C33_TypeScriptFlatConfigTakenForLegacy ==
  /\ ret # <<>> /\ ret[1].fn = "hasFlatConfig"
  /\ call.customPath = NoPath
  /\ call.files = InRoot({"eslint.config.ts", ".eslintrc.json"})
  /\ ~ret[1].result

FrameworkOrder ==
  << "Nuxt", "Next.js", "Angular", "Analog", "NestJS", "Vue", "React (Vite)",
     "Create React App", "TypeScript", "JavaScript" >>

\* A file of the workspace folder exists; the package.json lists a package.
Marker(name) == AbsPath(<<"w", name>>) \in call.files
Depends(name) ==
  /\ Marker("package.json") /\ call.packageJson.parses
  /\ \/ name \in call.packageJson.dependencies
     \/ name \in call.packageJson.devDependencies

\* The signature of a framework holds in the workspace.
Signature(name) ==
  CASE name = "Nuxt" -> Marker("nuxt.config.ts") \/ Marker("nuxt.config.js")
    [] name = "Next.js" -> Marker("next.config.js") \/ Marker("next.config.mjs")
    [] name = "Angular" -> Marker("angular.json")
    [] name = "Analog" -> Marker("vite.config.ts") /\ Depends("@analogjs/platform")
    [] name = "NestJS" -> Marker("nest-cli.json")
    [] name = "Vue" -> Marker("vite.config.ts") /\ Depends("vue")
    [] name = "React (Vite)" -> Marker("vite.config.ts") /\ Depends("react")
    [] name = "Create React App" -> Depends("react-scripts")
    [] name = "TypeScript" -> Marker("tsconfig.json")
    [] name = "JavaScript" -> Marker("package.json")

\* The exclude patterns and the vue-tsc flag that go with a framework.
FixedExcludes(name) ==
  CASE name = "Nuxt" -> <<"**/.nuxt/**", "**/.output/**", "**/dist/**">>
    [] name = "Next.js" -> <<"**/.next/**", "**/out/**", "**/build/**">>
    [] name = "Angular" -> <<"**/dist/**", "**/.angular/**">>
    [] name = "Analog" -> <<"**/dist/**", "**/.angular/**", "**/node_modules/**">>
    [] name \in {"NestJS", "Vue", "React (Vite)"} -> <<"**/dist/**", "**/build/**">>
    [] name = "Create React App" -> <<"**/build/**", "**/node_modules/**">>
    [] name \in {"TypeScript", "JavaScript"} ->
         <<"**/dist/**", "**/build/**", "**/out/**">>

\* C34: detectFramework answers the first framework of the order Nuxt,
\* Next.js, Angular, Analog, NestJS, Vue, React (Vite), Create React App,
\* TypeScript, JavaScript whose signature holds, with its exclude patterns
\* and its vue-tsc flag, and undefined if none holds; asked again in the
\* same workspace it answers the same.
C34_FirstMatchWins ==
  /\ \A i \in DOMAIN ret :
       ret[i].fn = "detectFramework" =>
         LET holds == { k \in DOMAIN FrameworkOrder : Signature(FrameworkOrder[k]) }
             r == ret[i].result
         IN IF holds = {} THEN ~r.detected
            ELSE LET name == FrameworkOrder[CHOOSE k \in holds : \A j \in holds : k <= j]
                 IN /\ r.detected
                    /\ r.name = name
                    /\ r.excludePatterns = FixedExcludes(name)
                    /\ r.useVueTsc = (name \in {"Nuxt", "Vue"})
  /\ (Len(ret) = 2 /\ ret[1].fn = "detectFramework") => ret[1] = ret[2]

C34_NestBeforeVue ==
  /\ Len(ret) = 2 /\ ret[2].fn = "detectFramework"
  /\ Marker("nest-cli.json") /\ Marker("vite.config.ts") /\ Depends("vue")
  /\ Depends("react-scripts") /\ Marker("tsconfig.json")
  /\ ret[2].result.name = "NestJS"

====
